---------------------------- MODULE Spec2Model ----------------------------
(***************************************************************************)
(* Subscription & slot lifecycle engine of the ultra-notifier site         *)
(* (src/unnamed/part_000, the express server).                             *)
(*                                                                         *)
(* Units.  The server keeps instants and durations as JavaScript Numbers   *)
(* in milliseconds.  Here one unit of time is one minute, so the code's    *)
(* 3600000 (one hour) is Hour = 60 and its 5 * 60 * 1000 (the sweep         *)
(* period) is SweepInterval = 5.  A Number that is the result of a         *)
(* division (the fair conversion) is kept as an exact fraction <<n, d>>,   *)
(* d > 0, in lowest terms; floating-point rounding error is not modelled.  *)
(* Money is counted in thousandths of a dollar, plan prices in cents per   *)
(* hour and purchased hours in tenths of an hour (the code rounds the      *)
(* request to one decimal), so cost = tenths * cents.                      *)
(*                                                                         *)
(* Fields of a user record that no decision reads (username, avatar,       *)
(* roblox_username, last_active, created_at, unpause_requested, the        *)
(* include/exclude config)                                                  *)
(* are left out.                                                           *)
(***************************************************************************)
EXTENDS Integers, Sequences, FiniteSets, TLC

\* ------------------------------------------------------------------ bounds
StartTime == 10
MaxInFlight == 1

\* ------------------------------------------------------- program constants
Hour == 60
SweepInterval == 5
MaxHours10 == 1680
DefaultMinHours10 == 20
DefaultSlots == 2
BanWarnings == 2
MaxedWarnings == 99

Users == {1, 2, 3}
Tiers == 1..5
Devices == {"d1", "d2"}
Null == "null"
NoNum == <<>>
NoKey == <<>>
NoPlans == <<>>

\* ADMIN_DISCORD_USERNAMES: user 1 is the one listed admin account.
Admins == {1}

\* ------------------------------------------------- JavaScript Number values
RECURSIVE Gcd(_, _)
Gcd(a, b) == IF b = 0 THEN a ELSE Gcd(b, a % b)

Abs(n) == IF n < 0 THEN 0 - n ELSE n

Rat(n, d) ==
    LET g == Gcd(Abs(n), d)
    IN  <<n \div g, d \div g>>

RInt(n) == <<n, 1>>
RAdd(a, b) == Rat(a[1] * b[2] + b[1] * a[2], a[2] * b[2])
RSub(a, b) == Rat(a[1] * b[2] - b[1] * a[2], a[2] * b[2])
RMul(a, b) == Rat(a[1] * b[1], a[2] * b[2])
RDiv(a, b) == Rat(a[1] * b[2], a[2] * b[1])
RLt(a, b) == a[1] * b[2] < b[1] * a[2]
RLe(a, b) == a[1] * b[2] <= b[1] * a[2]
RMax(a, b) == IF RLt(a, b) THEN b ELSE a

\* --------------------------------------------------------------- the state
VARIABLES
    users,            \* db.users: id -> user record
    banned_hwids,     \* db.banned_hwids: array of device ids
    warnings_log,     \* db.warnings: the audit entries of Warn
    global_paused,    \* db.global_paused
    sales_closed,     \* db.sales_closed
    plans,            \* db.plans: NoPlans, or the override table
    global_min_hours, \* db.global_min_hours in tenths of an hour, 0 = unset
    now,              \* the clock, Date.now()
    lastTick,         \* the instant the interval timer last fired
    sweeps,           \* in-flight sweeps: what is left of each expiredUsers
    resp              \* the response sent by the last handler that ran

dbVars == <<users, banned_hwids, warnings_log, global_paused, sales_closed, plans, global_min_hours>>
cfgVars == <<global_paused, sales_closed, plans, global_min_hours>>
banVars == <<banned_hwids, warnings_log>>
sweepVars == <<lastTick, sweeps>>
vars == <<users, banned_hwids, warnings_log, global_paused, sales_closed, plans, global_min_hours,
          now, lastTick, sweeps, resp>>

DEFAULT_PLANS ==
    [t \in Tiers |->
        CASE t = 1 -> [price |-> 100, slots |-> 2, adminOnly |-> FALSE, enabled |-> TRUE]
          [] t = 2 -> [price |-> 200, slots |-> 2, adminOnly |-> FALSE, enabled |-> TRUE]
          [] t = 3 -> [price |-> 350, slots |-> 4, adminOnly |-> FALSE, enabled |-> TRUE]
          [] t = 4 -> [price |-> 425, slots |-> 2, adminOnly |-> FALSE, enabled |-> TRUE]
          [] t = 5 -> [price |-> 500, slots |-> 1, adminOnly |-> TRUE, enabled |-> TRUE]]

getPlans == IF plans # NoPlans THEN plans ELSE DEFAULT_PLANS

getGlobalMinHours == IF global_min_hours = 0 THEN DefaultMinHours10 ELSE global_min_hours

isAdmin(id) == id \in Admins

isHWIDBanned(hwid) == \E i \in 1..Len(banned_hwids) : banned_hwids[i] = hwid

\* createUser, as called by the login callback for a new identity
NewUser(id) ==
    [license_key |-> <<"ULTRA", id>>,
     hwid |-> Null,
     hwid_history |-> <<>>,
     balance |-> 0,
     subscription_tier |-> 0,
     subscription_expires |-> RInt(0),
     warnings |-> 0,
     paused |-> FALSE,
     pause_locked |-> FALSE,
     paused_time_remaining |-> NoNum,
     paused_at |-> NoNum]

\* updateUser: { ...db.users[index], ...updates }
Merged(id, updates) ==
    [f \in DOMAIN users[id] |-> IF f \in DOMAIN updates THEN updates[f] ELSE users[id][f]]

updateUser(id, updates) == users' = [users EXCEPT ![id] = Merged(id, updates)]

Reply(op, id, status, body) ==
    resp' = [op |-> op, user |-> id, status |-> status, body |-> body]

\* the database and the timer when the server starts
FreshServer ==
    /\ banned_hwids = <<>>
    /\ warnings_log = <<>>
    /\ global_paused = FALSE
    /\ sales_closed = FALSE
    /\ plans = NoPlans
    /\ global_min_hours = 0
    /\ now = StartTime
    /\ lastTick = StartTime
    /\ sweeps = <<>>
    /\ resp = [op |-> "none", user |-> 0, status |-> "none", body |-> <<>>]

\* every account has logged in once
Init ==
    /\ users = [id \in Users |-> NewUser(id)]
    /\ FreshServer

\* ---------------------------------------------------------------- the clock
AdvanceTime(d) ==
    /\ now' = now + d
    /\ UNCHANGED <<dbVars, sweepVars, resp>>

\* ------------------------------------------------------ POST /api/add-balance
AddBalance(id, amount) ==
    /\ updateUser(id, [balance |-> users[id].balance + amount])
    /\ Reply("add-balance", id, "ok", [new_balance |-> users[id].balance + amount])
    /\ UNCHANGED <<banVars, cfgVars, now, sweepVars>>


\* -------------------------------------------------------- POST /api/subscribe
\* PLANS[tier] is undefined for a tier outside the table
HasPlan(tier) == tier \in DOMAIN getPlans

PLANS(tier) == getPlans[tier]

\* u.subscription_expires > now
ExpiresAfter(u, t) == RLt(RInt(t), u.subscription_expires)

\* mutant: the expiry comparison inverted
activeUsersOnTier_Inverted(tier, id) ==
    Cardinality({u \in Users : /\ users[u].subscription_tier = tier
                               /\ RLt(users[u].subscription_expires, RInt(now))
                               /\ u # id})

\* mutant: the requester is counted too
activeUsersOnTier_SelfCounted(tier, id) ==
    Cardinality({u \in Users : /\ users[u].subscription_tier = tier
                               /\ ExpiresAfter(users[u], now)})

\* mutant: a count read before the write of the request handled last
activeUsersOnTier_StaleRead(tier, id) ==
    Cardinality({u \in Users : /\ users[u].subscription_tier = tier
                               /\ ExpiresAfter(users[u], now)
                               /\ u # id
                               /\ ~(resp.op = "subscribe" /\ resp.status = "ok" /\ resp.user = u)})

activeUsersOnTier(tier, id) ==
    Cardinality({u \in Users : /\ users[u].subscription_tier = tier
                               /\ ExpiresAfter(users[u], now)
                               /\ u # id})

\* plan.slots || 2
maxSlotsOf(plan) == IF plan.slots = 0 THEN DefaultSlots ELSE plan.slots

\* mutant: full only when over capacity
SlotsFull_Strict(activeCount, maxSlots) == activeCount > maxSlots

SlotsFull(activeCount, maxSlots) == activeCount >= maxSlots

\* parsedHours < minHours || parsedHours > 168
InvalidHours(hours10) == hours10 < getGlobalMinHours \/ hours10 > MaxHours10

\* mutant: the two prices exchanged
convertedHours_PricesSwapped(user, plan) ==
    IF ExpiresAfter(user, now) /\ user.subscription_tier > 0
    THEN LET oldPlan == PLANS(user.subscription_tier)
             remainingMs == RSub(user.subscription_expires, RInt(now))
             remainingHours == RDiv(remainingMs, RInt(Hour))
             remainingValue == RMul(remainingHours, RInt(plan.price))
         IN  RDiv(remainingValue, RInt(oldPlan.price))
    ELSE RInt(0)

\* mutant: a lapsed subscription is converted too
convertedHours_NoExpiryCheck(user, plan) ==
    IF user.subscription_tier > 0
    THEN LET oldPlan == PLANS(user.subscription_tier)
             remainingMs == RSub(user.subscription_expires, RInt(now))
             remainingHours == RDiv(remainingMs, RInt(Hour))
             remainingValue == RMul(remainingHours, RInt(oldPlan.price))
         IN  RDiv(remainingValue, RInt(plan.price))
    ELSE RInt(0)

\* the fair conversion: remaining time -> $ value -> hours of the new tier
convertedHours(user, plan) ==
    IF ExpiresAfter(user, now) /\ user.subscription_tier > 0
    THEN LET oldPlan == PLANS(user.subscription_tier)
             remainingMs == RSub(user.subscription_expires, RInt(now))
             remainingHours == RDiv(remainingMs, RInt(Hour))
             remainingValue == RMul(remainingHours, RInt(oldPlan.price))
         IN  RDiv(remainingValue, RInt(plan.price))
    ELSE RInt(0)

\* conversionNote: empty, or the old tier named in the log line
conversionNote(user) ==
    IF ExpiresAfter(user, now) /\ user.subscription_tier > 0
    THEN <<user.subscription_tier>>
    ELSE <<>>

\* parsedHours as a Number of hours
HoursOf(hours10) == Rat(hours10, 10)

totalHoursOf(user, plan, hours10) == RAdd(convertedHours(user, plan), HoursOf(hours10))

\* Date.now() + (totalHours * 3600 * 1000)
newExpiresOf(user, plan, hours10) ==
    RAdd(RInt(now), RMul(totalHoursOf(user, plan, hours10), RInt(Hour)))

\* mutant: the price of one hour is charged whatever the number of hours
costOf_OneHour(plan, hours10) == 10 * plan.price

costOf(plan, hours10) == hours10 * plan.price

\* mutant: the check of the global pause is missing
SubscribeStatus_NoGlobalPause(id, tier, hours10) ==
    LET user == users[id]
        plan == PLANS(tier)
    IN  IF user.hwid # Null /\ isHWIDBanned(user.hwid) THEN "BannedHWID"
        ELSE IF user.warnings >= BanWarnings THEN "BannedWarnings"
        ELSE IF sales_closed THEN "SalesClosed"
        ELSE IF InvalidHours(hours10) THEN "InvalidHours"
        ELSE IF ~HasPlan(tier) THEN "InvalidTier"
        ELSE IF plan.enabled = FALSE THEN "PlanDisabled"
        ELSE IF plan.adminOnly /\ ~isAdmin(id) THEN "PlanAdminOnly"
        ELSE IF SlotsFull(activeUsersOnTier(tier, id), maxSlotsOf(plan)) THEN "SlotsFull"
        ELSE IF user.balance < costOf(plan, hours10) THEN "InsufficientBalance"
        ELSE "ok"

\* mutant: the check of the balance is missing
SubscribeStatus_NoBalanceCheck(id, tier, hours10) ==
    LET user == users[id]
        plan == PLANS(tier)
    IN  IF user.hwid # Null /\ isHWIDBanned(user.hwid) THEN "BannedHWID"
        ELSE IF user.warnings >= BanWarnings THEN "BannedWarnings"
        ELSE IF sales_closed THEN "SalesClosed"
        ELSE IF global_paused THEN "GlobalPaused"
        ELSE IF InvalidHours(hours10) THEN "InvalidHours"
        ELSE IF ~HasPlan(tier) THEN "InvalidTier"
        ELSE IF plan.enabled = FALSE THEN "PlanDisabled"
        ELSE IF plan.adminOnly /\ ~isAdmin(id) THEN "PlanAdminOnly"
        ELSE IF SlotsFull(activeUsersOnTier(tier, id), maxSlotsOf(plan)) THEN "SlotsFull"
        ELSE "ok"

SubscribeStatus(id, tier, hours10) ==
    LET user == users[id]
        plan == PLANS(tier)
    IN  IF user.hwid # Null /\ isHWIDBanned(user.hwid) THEN "BannedHWID"
        ELSE IF user.warnings >= BanWarnings THEN "BannedWarnings"
        ELSE IF sales_closed THEN "SalesClosed"
        ELSE IF global_paused THEN "GlobalPaused"
        ELSE IF InvalidHours(hours10) THEN "InvalidHours"
        ELSE IF ~HasPlan(tier) THEN "InvalidTier"
        ELSE IF plan.enabled = FALSE THEN "PlanDisabled"
        ELSE IF plan.adminOnly /\ ~isAdmin(id) THEN "PlanAdminOnly"
        ELSE IF SlotsFull(activeUsersOnTier(tier, id), maxSlotsOf(plan)) THEN "SlotsFull"
        ELSE IF user.balance < costOf(plan, hours10) THEN "InsufficientBalance"
        ELSE "ok"

Subscribe(id, tier, hours10) ==
    LET user == users[id]
        plan == PLANS(tier)
        status == SubscribeStatus(id, tier, hours10)
    IN  /\ IF status = "ok"
           THEN /\ updateUser(id, [balance |-> user.balance - costOf(plan, hours10),
                                   subscription_tier |-> tier,
                                   subscription_expires |-> newExpiresOf(user, plan, hours10)])
                /\ Reply("subscribe", id, "ok",
                         [tier |-> tier,
                          new_balance |-> user.balance - costOf(plan, hours10),
                          expires |-> newExpiresOf(user, plan, hours10),
                          hours_added |-> HoursOf(hours10),
                          converted_hours |-> convertedHours(user, plan),
                          total_hours |-> totalHoursOf(user, plan, hours10),
                          note |-> conversionNote(user)])
           ELSE /\ UNCHANGED users
                /\ Reply("subscribe", id, status,
                         IF status = "SlotsFull"
                         THEN [tier |-> tier,
                               activeUsersOnTier |-> activeUsersOnTier(tier, id),
                               maxSlots |-> maxSlotsOf(plan)]
                         ELSE IF status = "InsufficientBalance"
                         THEN [tier |-> tier,
                               needed |-> costOf(plan, hours10),
                               have |-> user.balance]
                         ELSE [tier |-> tier])
        /\ UNCHANGED <<banVars, cfgVars, now, sweepVars>>

\* ------------------------------------------- POST /api/admin/add-time/:userId
\* tier = 0 stands for a request body without a tier
AddTime(id, hours10, tier) ==
    LET user == users[id]
        currentExpires == RMax(user.subscription_expires, RInt(now))
        newExpires == RAdd(currentExpires, RMul(HoursOf(hours10), RInt(Hour)))
    IN  /\ updateUser(id, [subscription_expires |-> newExpires,
                           subscription_tier |->
                               IF tier # 0 THEN tier
                               ELSE IF user.subscription_tier # 0 THEN user.subscription_tier
                               ELSE 1])
        /\ Reply("add-time", id, "ok", [new_expires |-> newExpires])
        /\ UNCHANGED <<banVars, cfgVars, now, sweepVars>>

\* ------------------------------------------------------ POST /api/admin/plans
\* An override entry gives price and slots (0 = absent or not a number, so the
\* default is kept) and enabled (read only when hasEnabled).
MergedPlans(input) ==
    [t \in Tiers |->
        [price |-> IF input[t].price # 0 THEN input[t].price ELSE DEFAULT_PLANS[t].price,
         slots |-> IF input[t].slots # 0 THEN input[t].slots ELSE DEFAULT_PLANS[t].slots,
         adminOnly |-> DEFAULT_PLANS[t].adminOnly,
         enabled |-> IF input[t].hasEnabled THEN input[t].enabled
                     ELSE DEFAULT_PLANS[t].enabled]]

SetPlans(input) ==
    /\ plans' = MergedPlans(input)
    /\ Reply("admin-plans", 0, "ok", <<>>)
    /\ UNCHANGED <<users, banVars, global_paused, sales_closed, global_min_hours,
                   now, sweepVars>>


\* ------------------------------------------------ POST /api/admin/pause-all
PauseAll ==
    /\ global_paused' = ~global_paused
    /\ Reply("admin-pause-all", 0, "ok", [global_paused |-> ~global_paused])
    /\ UNCHANGED <<users, banVars, sales_closed, plans, global_min_hours, now, sweepVars>>

\* --------------------------------------------- POST /api/admin/toggle-sales
ToggleSales ==
    /\ sales_closed' = ~sales_closed
    /\ Reply("admin-toggle-sales", 0, "ok", [sales_closed |-> ~sales_closed])
    /\ UNCHANGED <<users, banVars, global_paused, plans, global_min_hours, now, sweepVars>>

\* ------------------------------------------- POST /api/admin/pause/:userId
\* mutant: the expiry itself is stored instead of what is left of it
FrozenRemaining_Expiry(user) == RMax(RInt(0), user.subscription_expires)

\* mutant: what is left is not clamped at zero
FrozenRemaining_Unclamped(user) == RSub(user.subscription_expires, RInt(now))

\* Math.max(0, user.subscription_expires - Date.now())
FrozenRemaining(user) == RMax(RInt(0), RSub(user.subscription_expires, RInt(now)))

\* user.paused_time_remaining || 0
RestoredRemaining(user) ==
    IF user.paused_time_remaining = NoNum THEN RInt(0) ELSE user.paused_time_remaining

\* the record written by the pausing branch
PauseUpdate(user) ==
    [paused |-> TRUE,
     pause_locked |-> FALSE,
     paused_time_remaining |-> FrozenRemaining(user),
     paused_at |-> RInt(now)]

\* mutant: the admin's unpause restores the stored expiry as it is
AdminUnpauseUpdate_NoRestore(user) ==
    [paused |-> FALSE,
     pause_locked |-> FALSE,
     paused_time_remaining |-> NoNum,
     paused_at |-> NoNum]

\* the record written by the unpausing branch
AdminUnpauseUpdate(user) ==
    [paused |-> FALSE,
     pause_locked |-> FALSE,
     subscription_expires |-> RAdd(RInt(now), RestoredRemaining(user)),
     paused_time_remaining |-> NoNum,
     paused_at |-> NoNum]

PauseToggle(id) ==
    LET user == users[id]
        newPausedState == ~user.paused
    IN  /\ IF newPausedState
           THEN updateUser(id, PauseUpdate(user))
           ELSE updateUser(id, AdminUnpauseUpdate(user))
        /\ Reply("admin-pause", id, "ok", [paused |-> newPausedState])
        /\ UNCHANGED <<banVars, cfgVars, now, sweepVars>>

\* ----------------------------------------------------------- POST /api/unpause
\* mutant: the admin's lock is not looked at
UnpauseStatus_LockIgnored(user) ==
    IF ~user.paused THEN "NotPaused"
    ELSE "ok"

UnpauseStatus(user) ==
    IF ~user.paused THEN "NotPaused"
    ELSE IF user.pause_locked THEN "PauseLocked"
    ELSE "ok"

\* the record written by the user's own unpause (unpause_requested left out)
SelfUnpauseUpdate(user) ==
    [paused |-> FALSE,
     subscription_expires |-> RAdd(RInt(now), RestoredRemaining(user)),
     paused_time_remaining |-> NoNum,
     paused_at |-> NoNum]

Unpause(id) ==
    LET user == users[id]
        status == UnpauseStatus(user)
    IN  /\ IF status = "ok"
           THEN updateUser(id, SelfUnpauseUpdate(user))
           ELSE UNCHANGED users
        /\ Reply("unpause", id, status, <<>>)
        /\ UNCHANGED <<banVars, cfgVars, now, sweepVars>>

\* ----------------------------------------- POST /api/admin/lock-all-paused
usersToLock ==
    IF global_paused
    THEN {u \in Users : /\ users[u].subscription_tier > 0
                        /\ ExpiresAfter(users[u], now)
                        /\ ~users[u].pause_locked}
    ELSE {u \in Users : users[u].paused /\ ~users[u].pause_locked}

\* mutant: the lock is set without the individual pause
LockAllUpdate_LockOnly(user) == [pause_locked |-> TRUE]

\* what the forEach writes for one user of usersToLock
LockAllUpdate(user) ==
    IF global_paused /\ ~user.paused
    THEN [paused |-> TRUE, pause_locked |-> TRUE]
    ELSE [pause_locked |-> TRUE]

LockAllPaused ==
    /\ IF usersToLock = {}
       THEN /\ UNCHANGED users
            /\ Reply("admin-lock-all-paused", 0, "NoPausedUsers", <<>>)
       ELSE /\ users' = [u \in Users |-> IF u \in usersToLock
                                        THEN Merged(u, LockAllUpdate(users[u]))
                                        ELSE users[u]]
            /\ Reply("admin-lock-all-paused", 0, "ok",
                     [locked_count |-> Cardinality(usersToLock)])
    /\ UNCHANGED <<banVars, cfgVars, now, sweepVars>>

\* -------------------------------------- POST /api/admin/lock-pause/:userId
\* mutant: the lock is toggled whether or not the user is paused
LockPause_NoPausedCheck(id) ==
    LET user == users[id]
    IN  /\ updateUser(id, [pause_locked |-> ~user.pause_locked])
        /\ Reply("admin-lock-pause", id, "ok", [pause_locked |-> ~user.pause_locked])
        /\ UNCHANGED <<banVars, cfgVars, now, sweepVars>>

LockPause(id) ==
    LET user == users[id]
    IN  /\ IF ~user.paused
           THEN /\ UNCHANGED users
                /\ Reply("admin-lock-pause", id, "NotPaused", <<>>)
           ELSE /\ updateUser(id, [pause_locked |-> ~user.pause_locked])
                /\ Reply("admin-lock-pause", id, "ok", [pause_locked |-> ~user.pause_locked])
        /\ UNCHANGED <<banVars, cfgVars, now, sweepVars>>

\* --------------------------------------------- POST /api/admin/warn/:userId
\* mutant: the automatic ban one warning late
AutoBanDue_Late(newWarnings, hwid) == newWarnings > BanWarnings /\ hwid # Null

\* newWarnings >= 2 && user.hwid
AutoBanDue(newWarnings, hwid) == newWarnings >= BanWarnings /\ hwid # Null

\* mutant: the device is pushed without looking whether it is already listed
Warn_NoDedup(id) ==
    LET user == users[id]
        newWarnings == user.warnings + 1
        autoBanned == AutoBanDue(newWarnings, user.hwid)
    IN  /\ updateUser(id, [warnings |-> newWarnings])
        /\ warnings_log' = Append(warnings_log, [user_id |-> id, timestamp |-> now])
        /\ banned_hwids' = IF autoBanned THEN Append(banned_hwids, user.hwid) ELSE banned_hwids
        /\ Reply("admin-warn", id, "ok", [warnings |-> newWarnings, auto_banned |-> autoBanned])
        /\ UNCHANGED <<cfgVars, now, sweepVars>>

Warn(id) ==
    LET user == users[id]
        newWarnings == user.warnings + 1
        autoBanned == AutoBanDue(newWarnings, user.hwid) /\ ~isHWIDBanned(user.hwid)
    IN  /\ updateUser(id, [warnings |-> newWarnings])
        /\ warnings_log' = Append(warnings_log, [user_id |-> id, timestamp |-> now])
        /\ banned_hwids' = IF autoBanned THEN Append(banned_hwids, user.hwid) ELSE banned_hwids
        /\ Reply("admin-warn", id, "ok", [warnings |-> newWarnings, auto_banned |-> autoBanned])
        /\ UNCHANGED <<cfgVars, now, sweepVars>>

\* ---------------------------------------------- POST /api/admin/ban/:userId
Ban(id) ==
    LET user == users[id]
    IN  /\ IF user.hwid = Null
           THEN /\ UNCHANGED <<users, banned_hwids>>
                /\ Reply("admin-ban", id, "NoHWID", <<>>)
           ELSE /\ banned_hwids' = IF isHWIDBanned(user.hwid) THEN banned_hwids
                                   ELSE Append(banned_hwids, user.hwid)
                /\ updateUser(id, [warnings |-> MaxedWarnings])
                /\ Reply("admin-ban", id, "ok", [banned_hwid |-> user.hwid])
        /\ UNCHANGED <<warnings_log, cfgVars, now, sweepVars>>

\* db.banned_hwids.filter(h => h !== hwid)
Without(list, hwid) == SelectSeq(list, LAMBDA h : h # hwid)

\* ---------------------------------------------- POST /api/admin/unban/:hwid
Unban(hwid) ==
    /\ banned_hwids' = Without(banned_hwids, hwid)
    /\ Reply("admin-unban", 0, "ok", [hwid |-> hwid])
    /\ UNCHANGED <<users, warnings_log, cfgVars, now, sweepVars>>

\* --------------------------------------- POST /api/admin/unban-user/:userId
UnbanUser(id) ==
    LET user == users[id]
        unbannedHwid == user.hwid # Null /\ isHWIDBanned(user.hwid)
    IN  /\ banned_hwids' = IF unbannedHwid THEN Without(banned_hwids, user.hwid)
                           ELSE banned_hwids
        /\ updateUser(id, [warnings |-> 0])
        /\ Reply("admin-unban-user", id, "ok", [unbanned_hwid |-> unbannedHwid])
        /\ UNCHANGED <<warnings_log, cfgVars, now, sweepVars>>

\* ------------------------------------ POST /api/admin/clear-warnings/:userId
\* mutant: clearing the warnings also takes the user's device off the ban list
ClearWarnings_AlsoUnbans(id) ==
    /\ updateUser(id, [warnings |-> 0])
    /\ banned_hwids' = Without(banned_hwids, users[id].hwid)
    /\ Reply("admin-clear-warnings", id, "ok", <<>>)
    /\ UNCHANGED <<warnings_log, cfgVars, now, sweepVars>>

ClearWarnings(id) ==
    /\ updateUser(id, [warnings |-> 0])
    /\ Reply("admin-clear-warnings", id, "ok", <<>>)
    /\ UNCHANGED <<banVars, cfgVars, now, sweepVars>>

\* -------- POST /api/reset-hwid (action "reset") and
\* -------- POST /api/admin/reset-hwid/:userId (action "admin_reset")
\* mutant: the history is started anew with the entry of this reset
ResetHwid_HistoryReplaced(id, action) ==
    LET user == users[id]
        history == IF user.hwid # Null
                   THEN <<[hwid |-> user.hwid, timestamp |-> now, action |-> action]>>
                   ELSE user.hwid_history
    IN  /\ updateUser(id, [hwid |-> Null, hwid_history |-> history])
        /\ Reply(IF action = "reset" THEN "reset-hwid" ELSE "admin-reset-hwid", id, "ok", <<>>)
        /\ UNCHANGED <<banVars, cfgVars, now, sweepVars>>

ResetHwid(id, action) ==
    LET user == users[id]
        history == IF user.hwid # Null
                   THEN Append(user.hwid_history,
                               [hwid |-> user.hwid, timestamp |-> now, action |-> action])
                   ELSE user.hwid_history
    IN  /\ updateUser(id, [hwid |-> Null, hwid_history |-> history])
        /\ Reply(IF action = "reset" THEN "reset-hwid" ELSE "admin-reset-hwid", id, "ok", <<>>)
        /\ UNCHANGED <<banVars, cfgVars, now, sweepVars>>

\* ------------------------------------------------------------ GET /api/validate
\* findUser({ license_key: key }): the first user holding the key, 0 for none
findUserByKey(key) ==
    IF \E u \in Users : users[u].license_key = key
    THEN CHOOSE u \in Users : /\ users[u].license_key = key
                              /\ \A v \in Users : users[v].license_key = key => u <= v
    ELSE 0

\* key = NoKey and hwid = Null stand for a query without that parameter
ValidateStatus(key, hwid) ==
    LET id == findUserByKey(key)
    IN  IF key = NoKey THEN "NoKey"
        ELSE IF hwid # Null /\ isHWIDBanned(hwid) THEN "Banned"
        ELSE IF id = 0 THEN "InvalidKey"
        ELSE IF users[id].warnings >= BanWarnings THEN "Banned"
        ELSE IF users[id].hwid # Null /\ isHWIDBanned(users[id].hwid) THEN "Banned"
        ELSE IF ~ExpiresAfter(users[id], now) THEN "Expired"
        ELSE IF users[id].hwid # Null /\ users[id].hwid # hwid THEN "HWIDMismatch"
        ELSE "Valid"

Validate(key, hwid) ==
    LET id == findUserByKey(key)
        status == ValidateStatus(key, hwid)
    IN  /\ IF status = "Valid" /\ users[id].hwid = Null /\ hwid # Null
           THEN updateUser(id, [hwid |-> hwid,
                                hwid_history |->
                                    Append(users[id].hwid_history,
                                           [hwid |-> hwid, timestamp |-> now, action |-> "set"])])
           ELSE UNCHANGED users
        /\ Reply("validate", id, status,
                 IF status = "Valid"
                 THEN [hwid |-> hwid, tier |-> users[id].subscription_tier]
                 ELSE [hwid |-> hwid])
        /\ UNCHANGED <<banVars, cfgVars, now, sweepVars>>

\* ----------------------------------------------------- GET /api/joiner/validate
JoinerValidateStatus(key, hwid) ==
    LET id == findUserByKey(key)
    IN  IF key = NoKey THEN "NoKey"
        ELSE IF hwid # Null /\ isHWIDBanned(hwid) THEN "Banned"
        ELSE IF id = 0 THEN "InvalidKey"
        ELSE IF users[id].warnings >= BanWarnings THEN "Banned"
        ELSE IF ~ExpiresAfter(users[id], now) THEN "Expired"
        ELSE IF global_paused \/ users[id].paused THEN "Paused"
        ELSE IF users[id].hwid # Null /\ users[id].hwid # hwid THEN "HWIDMismatch"
        ELSE "Valid"

JoinerValidate(key, hwid) ==
    LET id == findUserByKey(key)
        status == JoinerValidateStatus(key, hwid)
    IN  /\ IF status = "Valid" /\ users[id].hwid = Null /\ hwid # Null
           THEN updateUser(id, [hwid |-> hwid,
                                hwid_history |->
                                    Append(users[id].hwid_history,
                                           [hwid |-> hwid, timestamp |-> now,
                                            action |-> "joiner_set"])])
           ELSE UNCHANGED users
        /\ Reply("joiner-validate", id, status,
                 IF status = "Valid"
                 THEN [hwid |-> hwid, tier |-> users[id].subscription_tier]
                 ELSE [hwid |-> hwid])
        /\ UNCHANGED <<banVars, cfgVars, now, sweepVars>>

\* ------------------------------------------------------ GET /api/scanner/script
ScannerScriptStatus(key) ==
    LET id == findUserByKey(key)
    IN  IF key = NoKey THEN "NoKey"
        ELSE IF id = 0 THEN "InvalidKey"
        ELSE IF ~ExpiresAfter(users[id], now) THEN "Expired"
        ELSE "Served"

ScannerScript(key, hwid) ==
    LET id == findUserByKey(key)
        status == ScannerScriptStatus(key)
    IN  /\ IF status = "Served" /\ hwid # Null /\ users[id].hwid = Null
           THEN updateUser(id, [hwid |-> hwid])
           ELSE UNCHANGED users
        /\ Reply("scanner-script", id, status, [hwid |-> hwid])
        /\ UNCHANGED <<banVars, cfgVars, now, sweepVars>>

\* ------------------------------ POST /api/admin/remove-subscription/:userId
RemoveSubscription(id) ==
    /\ updateUser(id, [subscription_tier |-> 0, subscription_expires |-> RInt(0)])
    /\ Reply("admin-remove-subscription", id, "ok", <<>>)
    /\ UNCHANGED <<banVars, cfgVars, now, sweepVars>>

\* ------------------------------------ POST /api/admin/remove-hours/:userId
\* mutant: a subscription cut to before now keeps its tier
RemoveHoursUpdate_TierKept(newExpires) ==
    IF RLt(newExpires, RInt(now))
    THEN [subscription_expires |-> RInt(0)]
    ELSE [subscription_expires |-> newExpires]

\* what is written for the expiry left after the removal
RemoveHoursUpdate(newExpires) ==
    IF RLt(newExpires, RInt(now))
    THEN [subscription_expires |-> RInt(0), subscription_tier |-> 0]
    ELSE [subscription_expires |-> newExpires]

\* x.toFixed(1) for x >= 0, as a number of tenths
ToFixed1(x) == (20 * x[1] + x[2]) \div (2 * x[2])

\* Math.max(0, (newExpires - Date.now()) / 3600000).toFixed(1)
hoursRemainingOf(newExpires) ==
    ToFixed1(RMax(RInt(0), RDiv(RSub(newExpires, RInt(now)), RInt(Hour))))

\* hours10 = 0 stands for a body whose hours do not parse to a number
RemoveHours(id, hours10) ==
    LET user == users[id]
        newExpires == RSub(user.subscription_expires, RMul(HoursOf(hours10), RInt(Hour)))
    IN  /\ IF hours10 <= 0
           THEN /\ UNCHANGED users
                /\ Reply("admin-remove-hours", id, "InvalidHours", <<>>)
           ELSE /\ updateUser(id, RemoveHoursUpdate(newExpires))
                /\ Reply("admin-remove-hours", id, "ok",
                         [hours_remaining |->
                              hoursRemainingOf(IF RLt(newExpires, RInt(now)) THEN RInt(0)
                                               ELSE newExpires)])
        /\ UNCHANGED <<banVars, cfgVars, now, sweepVars>>

\* ------------------------------- setInterval: expired subscription checker
\* db.users in array order
UserOrder == <<1, 2, 3>>

\* mutant: no lower edge, every lapsed subscription is taken
JustExpired_NoWindow(u, t) ==
    /\ u.subscription_tier > 0
    /\ RLt(RInt(0), u.subscription_expires)
    /\ RLt(u.subscription_expires, RInt(t))

\* the filter of the sweep: lapsed within the last interval
JustExpired(u, t) ==
    /\ u.subscription_tier > 0
    /\ RLt(RInt(0), u.subscription_expires)
    /\ RLt(u.subscription_expires, RInt(t))
    /\ RLt(RInt(t - SweepInterval), u.subscription_expires)

expiredUsers == SelectSeq(UserOrder, LAMBDA id : JustExpired(users[id], now))

\* The timer fires no sooner than one interval after it last fired.  The
\* callback filters the users and, if any, starts awaiting the role removal
\* of the first one.
SweepTick ==
    /\ now >= lastTick + SweepInterval
    /\ Len(sweeps) < MaxInFlight
    /\ lastTick' = now
    /\ sweeps' = IF expiredUsers = <<>> THEN sweeps ELSE Append(sweeps, expiredUsers)
    /\ UNCHANGED <<dbVars, now, resp>>

\* mutant: the demotion also zeroes the stored expiry
SweepStep_ExpiryZeroed(i) ==
    /\ i \in 1..Len(sweeps)
    /\ updateUser(Head(sweeps[i]), [subscription_tier |-> 0, subscription_expires |-> RInt(0)])
    /\ sweeps' = IF Len(sweeps[i]) = 1
                 THEN SubSeq(sweeps, 1, i - 1) \o SubSeq(sweeps, i + 1, Len(sweeps))
                 ELSE [sweeps EXCEPT ![i] = Tail(@)]
    /\ UNCHANGED <<banVars, cfgVars, now, lastTick, resp>>

\* The awaited role removal of the i-th in-flight sweep returns: the user at
\* its head is written tier 0 and the loop moves on to the next one.
SweepStep(i) ==
    /\ i \in 1..Len(sweeps)
    /\ updateUser(Head(sweeps[i]), [subscription_tier |-> 0])
    /\ sweeps' = IF Len(sweeps[i]) = 1
                 THEN SubSeq(sweeps, 1, i - 1) \o SubSeq(sweeps, i + 1, Len(sweeps))
                 ELSE [sweeps EXCEPT ![i] = Tail(@)]
    /\ UNCHANGED <<banVars, cfgVars, now, lastTick, resp>>

\* ============================================================================
\* Specification of slot admission: purchases, admin grants and plan overrides
\* ============================================================================
SlotHorizon == 120
SlotExpiryHorizon == 240
SlotFunds == 4000

ExpiryWithin(limit) == \A id \in Users : RLe(users[id].subscription_expires, RInt(limit))

SlotGrantees == {3}
SlotTiers == {1, 2, 6}
SlotHours == {10, 20}
NoOverride == [price |-> 0, slots |-> 0, hasEnabled |-> FALSE, enabled |-> TRUE]
SlotOverrides ==
    {[t \in Tiers |-> IF t = 1 THEN [price |-> 0, slots |-> s, hasEnabled |-> FALSE, enabled |-> TRUE]
                      ELSE NoOverride] : s \in {1, 3}}

\* every account has been credited SlotFunds by add-balance
InitSlots ==
    /\ users = [id \in Users |-> [NewUser(id) EXCEPT !.balance = SlotFunds]]
    /\ FreshServer

SlotsNext ==
    \/ \E id \in Users, tier \in SlotTiers, hours10 \in SlotHours :
          Subscribe(id, tier, hours10) /\ ExpiryWithin(StartTime + SlotExpiryHorizon)'
    \/ \E id \in SlotGrantees : AddTime(id, 20, 1) /\ ExpiryWithin(StartTime + SlotExpiryHorizon)'
    \/ \E input \in SlotOverrides : SetPlans(input)
    \/ AdvanceTime(Hour) /\ now' <= StartTime + SlotHorizon

SpecSlots == InitSlots /\ [][SlotsNext]_vars

\* the users other than id that hold tier with a stored expiry after t
OthersActive(us, tier, id, t) ==
    {u \in Users \ {id} : us[u].subscription_tier = tier /\ RLt(RInt(t), us[u].subscription_expires)}

\* the checks of Subscribe that precede the slot check all pass
ReachesSlotCheck(id, tier, hours10) ==
    /\ ~(users[id].hwid # Null /\ isHWIDBanned(users[id].hwid))
    /\ users[id].warnings < 2
    /\ ~sales_closed
    /\ ~global_paused
    /\ hours10 >= getGlobalMinHours /\ hours10 <= 1680
    /\ tier \in Tiers
    /\ getPlans[tier].enabled
    /\ (getPlans[tier].adminOnly => id \in Admins)

\* C1: after a successful Subscribe to tier t, the users other than the
\* subscriber that hold t with an unexpired stored expiry number at most the
\* slot capacity of t.
C1_OthersWithinCapacityAfterSubscribe ==
    [][\A id \in Users, tier \in SlotTiers, hours10 \in SlotHours :
          (/\ resp'.op = "subscribe" /\ resp'.status = "ok" /\ resp'.user = id
           /\ Subscribe(id, tier, hours10))
          => Cardinality(OthersActive(users', tier, id, now')) <= getPlans[tier].slots]_vars

\* a purchase went through on a tier that already had another active holder
C1_Witness ==
    /\ resp.op = "subscribe" /\ resp.status = "ok"
    /\ users[resp.user].subscription_tier = resp.body.tier
    /\ Cardinality(OthersActive(users, resp.body.tier, resp.user, now)) >= 1

\* C2: with the earlier checks passed, Subscribe is rejected with SlotsFull,
\* reporting the active count and the capacity and changing no user, when the
\* other active users of the tier number at least its capacity, and passes the
\* slot check exactly when they number fewer; the rejection is a response.
C2_SlotsFullIffAtCapacity ==
    [][\A id \in Users, tier \in SlotTiers, hours10 \in SlotHours :
          (/\ resp'.op = "subscribe" /\ resp'.user = id
           /\ ReachesSlotCheck(id, tier, hours10)
           /\ Subscribe(id, tier, hours10))
          => LET n == Cardinality(OthersActive(users, tier, id, now))
                 cap == getPlans[tier].slots
             IN  /\ n >= cap => /\ resp'.status = "SlotsFull"
                                /\ resp'.body.activeUsersOnTier = n
                                /\ resp'.body.maxSlots = cap
                                /\ users' = users
                 /\ n < cap => resp'.status \in {"ok", "InsufficientBalance"}]_vars

\* the scenario of the spec: capacity 2, two others active, the third refused
C2_Witness ==
    /\ resp.op = "subscribe" /\ resp.status = "SlotsFull"
    /\ resp.body.activeUsersOnTier = 2 /\ resp.body.maxSlots = 2
    /\ Cardinality(OthersActive(users, resp.body.tier, resp.user, now)) = 2

\* C3: a user active on a tier that is exactly full (the requester included)
\* is not refused by the slot check when renewing that tier.
C3_RenewalNeverSelfBlocks ==
    [][\A id \in Users, tier \in SlotTiers, hours10 \in SlotHours :
          (/\ resp'.op = "subscribe" /\ resp'.user = id
           /\ ReachesSlotCheck(id, tier, hours10)
           /\ users[id].subscription_tier = tier
           /\ RLt(RInt(now), users[id].subscription_expires)
           /\ Cardinality(OthersActive(users, tier, id, now)) + 1 = getPlans[tier].slots
           /\ Subscribe(id, tier, hours10))
          => resp'.status # "SlotsFull"]_vars

\* a renewal of the same tier went through while the tier was exactly full
C3_Witness ==
    /\ resp.op = "subscribe" /\ resp.status = "ok"
    /\ resp.body.note = <<resp.body.tier>>
    /\ users[resp.user].subscription_tier = resp.body.tier
    /\ Cardinality(OthersActive(users, resp.body.tier, resp.user, now)) + 1
           = getPlans[resp.body.tier].slots

\* the purchase handled last took the last free slot of tier: its buyer holds
\* the tier and the tier's active holders number exactly its capacity
TookLastSlot(tier) ==
    /\ resp.op = "subscribe" /\ resp.status = "ok" /\ resp.body.tier = tier
    /\ users[resp.user].subscription_tier = tier
    /\ RLt(RInt(now), users[resp.user].subscription_expires)
    /\ Cardinality({u \in Users : /\ users[u].subscription_tier = tier
                                   /\ RLt(RInt(now), users[u].subscription_expires)})
          = getPlans[tier].slots

\* a different user, not a holder of the tier, asks for it next, passes the
\* earlier checks and can pay
NextAsksForTier(id, tier, hours10) ==
    /\ resp.user # id
    /\ ~(users[id].subscription_tier = tier /\ RLt(RInt(now), users[id].subscription_expires))
    /\ ReachesSlotCheck(id, tier, hours10)
    /\ users[id].balance >= hours10 * getPlans[tier].price

\* C24 as stated: of two Subscribe requests by different users for the last
\* free slot of a tier, the second reads the count from before the first's
\* write and is admitted as well.
C24_Original ==
    [][\A id \in Users, tier \in SlotTiers \cap Tiers, hours10 \in SlotHours :
          (/\ resp'.op = "subscribe" /\ resp'.user = id
           /\ TookLastSlot(tier) /\ NextAsksForTier(id, tier, hours10)
           /\ Subscribe(id, tier, hours10))
          => resp'.status = "ok"]_vars

\* C24 (amended): the slot check and the write of Subscribe are one step; of
\* two Subscribe requests by different users for the last free slot the one
\* handled second reads the count that includes the first and is refused with
\* SlotsFull, changing no user.
C24_SecondForLastSlotRefused ==
    [][\A id \in Users, tier \in SlotTiers \cap Tiers, hours10 \in SlotHours :
          (/\ resp'.op = "subscribe" /\ resp'.user = id
           /\ TookLastSlot(tier) /\ NextAsksForTier(id, tier, hours10)
           /\ Subscribe(id, tier, hours10))
          => /\ resp'.status = "SlotsFull"
             /\ resp'.body.activeUsersOnTier = getPlans[tier].slots
             /\ users' = users]_vars

\* a tier of capacity one: its holder bought two hours at this very instant
\* and paid for them, and the next buyer has just been refused
C24_Witness ==
    /\ resp.op = "subscribe" /\ resp.status = "SlotsFull"
    /\ resp.body.maxSlots = 1 /\ resp.body.activeUsersOnTier = 1
    /\ users[resp.user].balance = SlotFunds
    /\ \E u \in Users \ {resp.user} :
          /\ users[u].subscription_tier = resp.body.tier
          /\ users[u].subscription_expires = RInt(now + 2 * Hour)
          /\ users[u].balance < SlotFunds


\* the users holding an entitlement on tier: time left on the stored expiry,
\* or paused with frozen time left
Entitled(tier) ==
    {u \in Users :
        /\ users[u].subscription_tier = tier
        /\ \/ RLt(RInt(now), users[u].subscription_expires)
           \/ /\ users[u].paused
              /\ users[u].paused_time_remaining # NoNum
              /\ RLt(RInt(0), users[u].paused_time_remaining)}

\* C34: in every reachable state and for every tier, the number of users
\* holding an entitlement on the tier is at most the slot capacity of the tier.
C34_EntitledWithinCapacity ==
    \A t \in Tiers : Cardinality(Entitled(t)) <= maxSlotsOf(getPlans[t])

\* ============================================================================
\* Specification of the fair conversion: one account buying across tiers
\* ============================================================================
ConvertHorizon == 180
ConvertExpiryHorizon == 690
ConvertFunds == 9000

ConvertUsers == {1}
ConvertTiers == {1, 3}
ConvertHours == {20}
ConvertGrants == {20, 100}
ConvertSteps == {45}

\* the buying accounts have been credited ConvertFunds by add-balance
InitConvert ==
    /\ users = [id \in Users |-> IF id \in ConvertUsers
                                  THEN [NewUser(id) EXCEPT !.balance = ConvertFunds]
                                  ELSE NewUser(id)]
    /\ FreshServer

ConvertNext ==
    \/ \E id \in ConvertUsers, hours10 \in ConvertGrants :
          AddTime(id, hours10, 1) /\ ExpiryWithin(StartTime + ConvertExpiryHorizon)'
    \/ \E id \in ConvertUsers, tier \in ConvertTiers, hours10 \in ConvertHours :
          Subscribe(id, tier, hours10) /\ ExpiryWithin(StartTime + ConvertExpiryHorizon)'
    \/ \E d \in ConvertSteps : AdvanceTime(d) /\ now' <= StartTime + ConvertHorizon

SpecConvert == InitConvert /\ [][ConvertNext]_vars

\* the stored subscription counts as running at the instant of the purchase
HasRunningSubscription(u) ==
    RLt(RInt(now), u.subscription_expires) /\ u.subscription_tier > 0

\* C6: for a user with a running subscription, a successful Subscribe reports
\* convertedHours with convertedHours * newPrice = remainingHours * oldPrice,
\* totalHours = convertedHours + purchasedHours, and stores and reports
\* newExpires = now + totalHours * 1h; 10 remaining hours at 1.00/h moved to
\* 3.50/h with 2 hours bought give 20/7 (2.857) and 34/7 (4.857) hours.
C6_FairConversion ==
    [][\A id \in ConvertUsers, tier \in ConvertTiers, hours10 \in ConvertHours :
          (/\ resp'.op = "subscribe" /\ resp'.status = "ok" /\ resp'.user = id
           /\ HasRunningSubscription(users[id])
           /\ Subscribe(id, tier, hours10))
          => LET remainingHours ==
                     RDiv(RSub(users[id].subscription_expires, RInt(now)), RInt(Hour))
                 oldPrice == getPlans[users[id].subscription_tier].price
                 newPrice == getPlans[tier].price
                 b == resp'.body
             IN  /\ RMul(b.converted_hours, RInt(newPrice)) = RMul(remainingHours, RInt(oldPrice))
                 /\ b.total_hours = RAdd(b.converted_hours, Rat(hours10, 10))
                 /\ b.expires = RAdd(RInt(now), RMul(b.total_hours, RInt(Hour)))
                 /\ users'[id].subscription_expires = b.expires
                 /\ (remainingHours = RInt(10) /\ oldPrice = 100 /\ newPrice = 350 /\ hours10 = 20)
                        => (b.converted_hours = <<20, 7>> /\ b.total_hours = <<34, 7>>)]_vars

\* the worked example: 10 hours of tier 1 carried into tier 3 with 2 hours bought
C6_Witness ==
    /\ resp.op = "subscribe" /\ resp.status = "ok"
    /\ resp.body.tier = 3 /\ resp.body.note = <<1>>
    /\ resp.body.converted_hours = <<20, 7>>
    /\ resp.body.total_hours = <<34, 7>>
    /\ users[resp.user].subscription_expires = RAdd(RInt(now), Rat(34 * Hour, 7))

\* C7: for a user without a running subscription (stored expiry <= now, or
\* tier 0) a successful Subscribe converts nothing: convertedHours = 0,
\* totalHours = purchasedHours and newExpires = now + purchasedHours * 1h.
C7_NoConversionWithoutSubscription ==
    [][\A id \in ConvertUsers, tier \in ConvertTiers, hours10 \in ConvertHours :
          (/\ resp'.op = "subscribe" /\ resp'.status = "ok" /\ resp'.user = id
           /\ (RLe(users[id].subscription_expires, RInt(now)) \/ users[id].subscription_tier = 0)
           /\ Subscribe(id, tier, hours10))
          => /\ resp'.body.converted_hours = RInt(0)
             /\ resp'.body.total_hours = Rat(hours10, 10)
             /\ users'[id].subscription_expires = RAdd(RInt(now), Rat(hours10 * Hour, 10))
             /\ resp'.body.expires = users'[id].subscription_expires]_vars

\* a purchase by a user whose earlier subscription had lapsed: nothing carried
C7_Witness ==
    /\ resp.op = "subscribe" /\ resp.status = "ok"
    /\ resp.body.converted_hours = RInt(0) /\ resp.body.note = <<>>
    /\ users[resp.user].balance <= ConvertFunds - 4000
    /\ users[resp.user].subscription_tier > 0
    /\ users[resp.user].subscription_expires = RAdd(RInt(now), RInt(2 * Hour))


\* ============================================================================
\* Specification of pausing: admin grants, the pause toggles, locks, global pause
\* ============================================================================
PauseHorizon == 180
PauseExpiryHorizon == 240

PauseUsers == {1, 2}

PauseNext ==
    \/ \E id \in PauseUsers : AddTime(id, 20, 1) /\ ExpiryWithin(StartTime + PauseExpiryHorizon)'
    \/ \E id \in PauseUsers : PauseToggle(id) /\ ExpiryWithin(StartTime + PauseExpiryHorizon)'
    \/ \E id \in PauseUsers : Unpause(id) /\ ExpiryWithin(StartTime + PauseExpiryHorizon)'
    \/ \E id \in PauseUsers : LockPause(id)
    \/ LockAllPaused
    \/ PauseAll
    \/ AdvanceTime(Hour) /\ now' <= StartTime + PauseHorizon

SpecPause == Init /\ [][PauseNext]_vars

\* the last handler that ran paused id, at this very instant
JustPaused(id) ==
    /\ resp.op = "admin-pause" /\ resp.user = id /\ resp.body.paused
    /\ users[id].paused /\ users[id].paused_at = RInt(now)

\* an Unpause of id, by the user or by the admin toggle
Unpauses(id) == (resp'.op = "unpause" /\ Unpause(id)) \/ (resp'.op = "admin-pause" /\ PauseToggle(id))

\* C4 as stated: Pause followed at once by Unpause, no time elapsed, leaves
\* subscription_expires at its value before the Pause, whatever that value was.
C4_Original ==
    [][\A id \in PauseUsers :
          (JustPaused(id) /\ resp'.user = id /\ Unpauses(id))
          => users'[id].subscription_expires = users[id].subscription_expires]_vars

\* C4 (amended): Pause followed at once by Unpause, no time elapsed, sets
\* subscription_expires to the larger of its value before the Pause and now:
\* an expiry that was not in the past is restored, a past one becomes now.
C4_PauseUnpauseRestoresFutureExpiry ==
    [][\A id \in PauseUsers :
          (JustPaused(id) /\ resp'.user = id /\ Unpauses(id))
          => /\ users'[id].subscription_expires
                    = RMax(users[id].subscription_expires, RInt(now))
             /\ RLe(RInt(now), users[id].subscription_expires)
                    => users'[id].subscription_expires = users[id].subscription_expires]_vars

\* a subscription granted for two hours at the start has been through Pause
\* and Unpause and still ends two hours after the start: no time passed paused
C4_Witness ==
    /\ resp.op = "unpause" /\ resp.status = "ok"
    /\ ~users[resp.user].paused /\ users[resp.user].subscription_tier > 0
    /\ users[resp.user].subscription_expires = RInt(StartTime + 2 * Hour)
    /\ now = StartTime + Hour

\* C9: lock-all run while the global pause is on leaves every user that had a
\* running subscription and was not paused both paused and locked; switching
\* the global flag changes no user record; and a locked pause ends only by the
\* admin's pause toggle, so those users are still paused once the flag is off.
C9_MaterializedPauseSurvives ==
    [][/\ (global_paused /\ resp'.op = "admin-lock-all-paused" /\ LockAllPaused)
          => \A u \in Users :
                (users[u].subscription_tier > 0 /\ RLt(RInt(now), users[u].subscription_expires)
                 /\ ~users[u].paused)
                => (users'[u].paused /\ users'[u].pause_locked)
       /\ (global_paused' # global_paused) => users' = users
       /\ \A u \in Users :
             (users[u].paused /\ users[u].pause_locked /\ ~users'[u].paused)
             => (resp'.op = "admin-pause" /\ resp'.user = u)]_vars

\* the flag has just been cleared and a user materialized by lock-all (paused
\* and locked, with no frozen time of an individual Pause) is still paused
C9_Witness ==
    /\ resp.op = "admin-pause-all" /\ ~global_paused
    /\ \E u \in Users : /\ users[u].paused /\ users[u].pause_locked
                        /\ users[u].paused_time_remaining = NoNum
                        /\ users[u].subscription_tier > 0

\* C11: in every reachable state and for every user, paused_time_remaining is
\* set (not null) exactly when paused is true.
C11_FrozenIffPaused ==
    \A id \in Users : (users[id].paused_time_remaining # NoNum) <=> users[id].paused

\* C13: the user's own Unpause succeeds exactly when the user is paused and
\* not locked; on a user that is not paused it answers NotPaused and on a
\* locked user PauseLocked, both leaving every user record as it was; when it
\* succeeds, subscription_expires becomes now plus the frozen duration (an
\* absent duration counting as 0), and paused and the frozen duration are
\* cleared.
C13_SelfUnpauseOnlyWhenPausedUnlocked ==
    [][\A id \in PauseUsers :
          (resp'.op = "unpause" /\ resp'.user = id /\ Unpause(id))
          => /\ (resp'.status = "ok") <=> (users[id].paused /\ ~users[id].pause_locked)
             /\ ~users[id].paused => (resp'.status = "NotPaused" /\ users' = users)
             /\ users[id].pause_locked => (resp'.status = "PauseLocked" /\ users' = users)
             /\ resp'.status = "ok"
                   => /\ users'[id].subscription_expires
                            = RAdd(RInt(now),
                                   IF users[id].paused_time_remaining = NoNum THEN RInt(0)
                                   ELSE users[id].paused_time_remaining)
                      /\ ~users'[id].paused
                      /\ users'[id].paused_time_remaining = NoNum]_vars

\* a subscription of two hours was frozen at the start, an hour went by, and
\* the user's own Unpause has just given the two hours back
C13_Witness ==
    /\ resp.op = "unpause" /\ resp.status = "ok"
    /\ now = StartTime + Hour
    /\ ~users[resp.user].paused
    /\ users[resp.user].paused_time_remaining = NoNum
    /\ users[resp.user].subscription_expires = RInt(StartTime + 3 * Hour)

\* C14: the admin's toggle on a paused user succeeds whether or not the pause
\* is locked, and leaves subscription_expires, paused and the frozen duration
\* as the user's own Unpause would have written them from the same record at
\* the same instant.
C14_AdminUnpauseAsSelfUnpause ==
    [][\A id \in PauseUsers :
          (resp'.op = "admin-pause" /\ resp'.user = id /\ users[id].paused /\ PauseToggle(id))
          => LET self == Merged(id, SelfUnpauseUpdate(users[id]))
             IN  /\ resp'.status = "ok" /\ ~resp'.body.paused
                 /\ ~users'[id].paused
                 /\ users'[id].subscription_expires = self.subscription_expires
                 /\ users'[id].paused = self.paused
                 /\ users'[id].paused_time_remaining = self.paused_time_remaining]_vars

\* the admin's toggle has just resumed a subscription frozen with two hours
\* left, two hours after the start
C14_Witness ==
    /\ resp.op = "admin-pause" /\ ~resp.body.paused
    /\ now = StartTime + 2 * Hour
    /\ ~users[resp.user].paused /\ ~users[resp.user].pause_locked
    /\ users[resp.user].paused_time_remaining = NoNum
    /\ users[resp.user].subscription_expires = RInt(StartTime + 4 * Hour)

\* C15: the admin's toggle pauses exactly the users that are not paused; the
\* pause stores max(0, subscription_expires - now) as the frozen duration, sets
\* paused, clears the lock, and leaves the stored expiry, tier, balance,
\* warnings and bound device of that user and every other user's record as
\* they were.
C15_PauseFreezesAndFrames ==
    [][\A id \in PauseUsers :
          (resp'.op = "admin-pause" /\ resp'.user = id /\ PauseToggle(id))
          => /\ resp'.body.paused <=> ~users[id].paused
             /\ ~users[id].paused
                   => /\ users'[id].paused_time_remaining
                            = (IF RLt(RInt(now), users[id].subscription_expires)
                               THEN RSub(users[id].subscription_expires, RInt(now))
                               ELSE RInt(0))
                      /\ users'[id].paused /\ ~users'[id].pause_locked
                      /\ users'[id].subscription_expires = users[id].subscription_expires
                      /\ users'[id].subscription_tier = users[id].subscription_tier
                      /\ users'[id].balance = users[id].balance
                      /\ users'[id].warnings = users[id].warnings
                      /\ users'[id].hwid = users[id].hwid
                      /\ \A o \in Users \ {id} : users'[o] = users[o]]_vars

\* a subscription that ran out an hour ago has just been paused: nothing is
\* left to freeze, and the stored expiry and tier are as they were
C15_Witness ==
    /\ resp.op = "admin-pause" /\ resp.body.paused
    /\ users[resp.user].paused /\ ~users[resp.user].pause_locked
    /\ users[resp.user].paused_time_remaining = RInt(0)
    /\ users[resp.user].paused_at = RInt(now)
    /\ users[resp.user].subscription_tier > 0
    /\ users[resp.user].subscription_expires = RInt(now - Hour)



\* C30: Lock/Unlock on a paused user flips pause_locked of that user and
\* writes nothing else; on a user that is not paused it is refused and writes
\* nothing; and after every step a user with pause_locked is paused.
C30_LockTogglesOnlyWhenPaused ==
    [][/\ \A id \in PauseUsers :
             (resp'.op = "admin-lock-pause" /\ resp'.user = id /\ LockPause(id))
                => IF users[id].paused
                   THEN /\ resp'.status = "ok"
                        /\ users' = [users EXCEPT ![id].pause_locked = ~users[id].pause_locked]
                        /\ UNCHANGED <<banVars, cfgVars>>
                   ELSE /\ resp'.status = "NotPaused"
                        /\ UNCHANGED dbVars
       /\ \A u \in Users : users'[u].pause_locked => users'[u].paused]_vars

\* a locked pause has just been unlocked: the user is still paused, with the
\* frozen time in place
C30_Witness ==
    /\ resp.op = "admin-lock-pause" /\ resp.status = "ok" /\ resp.body.pause_locked = FALSE
    /\ users[resp.user].paused /\ ~users[resp.user].pause_locked
    /\ users[resp.user].paused_time_remaining # NoNum
    /\ RLt(RInt(0), users[resp.user].paused_time_remaining)

\* ============================================================================
\* Specification of the global pause: purchases, the global and sales flags,
\* individual pauses
\* ============================================================================
GlobalHorizon == 120
GlobalExpiryHorizon == 360

GlobalUsers == {1, 2}
GlobalTiers == {1, 2}
GlobalHours == {20}

GlobalNext ==
    \/ \E id \in GlobalUsers, tier \in GlobalTiers, hours10 \in GlobalHours :
          Subscribe(id, tier, hours10) /\ ExpiryWithin(StartTime + GlobalExpiryHorizon)'
    \/ \E id \in GlobalUsers : PauseToggle(id) /\ ExpiryWithin(StartTime + GlobalExpiryHorizon)'
    \/ PauseAll
    \/ ToggleSales
    \/ AdvanceTime(Hour) /\ now' <= StartTime + GlobalHorizon

SpecGlobal == InitSlots /\ [][GlobalNext]_vars

\* C16: while global_paused is on every Subscribe is refused and writes
\* nothing, whether or not the requester is individually paused; and the
\* toggle of the global flag flips the flag and changes no user record.
C16_GlobalPauseRejectsSubscribe ==
    [][/\ \A id \in GlobalUsers, tier \in GlobalTiers, hours10 \in GlobalHours :
             (resp'.op = "subscribe" /\ resp'.user = id /\ global_paused
              /\ Subscribe(id, tier, hours10))
             => (resp'.status # "ok" /\ users' = users)
       /\ (resp'.op = "admin-pause-all" /\ PauseAll)
             => (global_paused' = ~global_paused /\ users' = users)]_vars

\* with the global pause on and sales open, a purchase that the requester
\* could pay for, and who is not individually paused, has just been refused
\* for the global pause alone; another user is individually paused
C16_Witness ==
    /\ resp.op = "subscribe" /\ resp.status = "GlobalPaused"
    /\ global_paused /\ ~sales_closed
    /\ ~users[resp.user].paused
    /\ users[resp.user].balance = SlotFunds
    /\ \E o \in GlobalUsers : users[o].paused /\ users[o].subscription_tier > 0


\* C35: when a paused user has completed a Subscribe for h hours (global pause
\* off) and is then unpaused, by the user or by the admin, the remaining time
\* right after the Unpause is at least h hours and the tier is the one bought.
C35_PurchaseSurvivesUnpause ==
    [][\A id \in GlobalUsers :
          (/\ resp.op = "subscribe" /\ resp.status = "ok" /\ resp.user = id
           /\ users[id].paused
           /\ resp'.user = id /\ Unpauses(id))
             => /\ RLe(RMul(resp.body.hours_added, RInt(Hour)),
                       RSub(users'[id].subscription_expires, RInt(now)))
                /\ users'[id].subscription_tier = resp.body.tier]_vars

\* ============================================================================
\* Specification of binding and bans: validation, warnings, bans and resets
\* ============================================================================
MaxWarnLog == 2
MaxBanHistory == 2
BanHorizon == 120

BanUsers == {1, 2}
BanAdminTargets == {1}
BanKeys == {<<"ULTRA", 1>>, <<"ULTRA", 2>>, <<"ULTRA", 0>>, NoKey}
BanDevices == Devices \cup {Null}

BanBounded ==
    /\ Len(warnings_log) <= MaxWarnLog
    /\ \A id \in Users : Len(users[id].hwid_history) <= MaxBanHistory

BanNext ==
    \/ \E id \in BanUsers : AddTime(id, 20, 1) /\ ExpiryWithin(StartTime + BanHorizon)'
    \/ \E key \in BanKeys, hwid \in BanDevices : Validate(key, hwid) /\ BanBounded'
    \/ \E id \in BanAdminTargets : Warn(id) /\ BanBounded'
    \/ \E id \in BanAdminTargets : Ban(id)
    \/ \E hwid \in Devices : Unban(hwid)
    \/ \E id \in BanAdminTargets : UnbanUser(id)
    \/ \E id \in BanAdminTargets : ClearWarnings(id)
    \/ \E id \in BanAdminTargets, action \in {"reset", "admin_reset"} :
          ResetHwid(id, action) /\ BanBounded'
    \/ AdvanceTime(2 * Hour) /\ now' <= StartTime + BanHorizon

SpecBan == Init /\ [][BanNext]_vars

InBanSet(list, hwid) == \E i \in 1..Len(list) : list[i] = hwid

\* C5: a Warn that brings the count of a user with a bound device to two (or
\* more) leaves that device in the BanSet; a ValidateLicense that carries a
\* key and presents a device of the BanSet answers Banned; and a device leaves
\* the BanSet only by an admin unban.
C5_TwoWarningsBanTheDevice ==
    [][/\ \A id \in BanUsers :
             (resp'.op = "admin-warn" /\ resp'.user = id /\ Warn(id)
              /\ users[id].hwid # Null /\ users[id].warnings + 1 >= 2)
             => InBanSet(banned_hwids', users[id].hwid)
       /\ \A key \in BanKeys \ {NoKey}, hwid \in Devices :
             (resp'.op = "validate" /\ InBanSet(banned_hwids, hwid) /\ Validate(key, hwid))
             => resp'.status = "Banned"
       /\ \A hwid \in Devices :
             (InBanSet(banned_hwids, hwid) /\ ~InBanSet(banned_hwids', hwid))
             => resp'.op \in {"admin-unban", "admin-unban-user"}]_vars

\* a user warned twice presents the bound device with a valid key and a
\* running subscription, and is answered Banned
C5_Witness ==
    /\ resp.op = "validate" /\ resp.status = "Banned" /\ resp.user \in Users
    /\ users[resp.user].warnings = 2
    /\ Len(warnings_log) = 2
    /\ users[resp.user].hwid = resp.body.hwid
    /\ InBanSet(banned_hwids, resp.body.hwid)
    /\ RLt(RInt(now), users[resp.user].subscription_expires)

NoDuplicates(list) == \A i, j \in 1..Len(list) : i # j => list[i] # list[j]

\* C20: a Warn adds exactly one to the user's warning count and appends one
\* audit entry; it appends the user's bound device to the BanSet when the new
\* count is at least two and the device is not yet listed, and otherwise
\* leaves the BanSet as it was; and the BanSet never lists a device twice.
C20_WarnCountsOnceAndBansOnce ==
    [][/\ \A id \in BanAdminTargets :
             (resp'.op = "admin-warn" /\ resp'.user = id /\ Warn(id))
             => /\ users'[id].warnings = users[id].warnings + 1
                /\ Len(warnings_log') = Len(warnings_log) + 1
                /\ SubSeq(warnings_log', 1, Len(warnings_log)) = warnings_log
                /\ warnings_log'[Len(warnings_log')].user_id = id
                /\ banned_hwids'
                      = (IF /\ users[id].warnings + 1 >= 2
                            /\ users[id].hwid # Null
                            /\ ~InBanSet(banned_hwids, users[id].hwid)
                         THEN Append(banned_hwids, users[id].hwid)
                         ELSE banned_hwids)
       /\ NoDuplicates(banned_hwids')]_vars

\* the second warning of a user whose device an earlier Ban had already
\* listed: the count is two and the device is listed once
C20_Witness ==
    /\ resp.op = "admin-warn" /\ resp.body.warnings = 2 /\ ~resp.body.auto_banned
    /\ users[resp.user].warnings = 2
    /\ users[resp.user].hwid # Null
    /\ banned_hwids = <<users[resp.user].hwid>>
    /\ Len(warnings_log) = 2


\* ============================================================================
\* Specification of the three key-checking endpoints: validation by the tool,
\* by the joiner and by the script download, with warnings, bans, resets and
\* pauses
\* ============================================================================
BindHorizon == 120

BindUsers == {1}
BindKeys == {<<"ULTRA", 1>>, <<"ULTRA", 0>>, NoKey}

BindNext ==
    \/ \E id \in BindUsers : AddTime(id, 20, 1) /\ ExpiryWithin(StartTime + BindHorizon)'
    \/ \E key \in BindKeys, hwid \in BanDevices : Validate(key, hwid) /\ BanBounded'
    \/ \E key \in BindKeys, hwid \in BanDevices : JoinerValidate(key, hwid) /\ BanBounded'
    \/ \E key \in BindKeys, hwid \in BanDevices : ScannerScript(key, hwid)
    \/ \E id \in BindUsers : Warn(id) /\ BanBounded'
    \/ \E id \in BindUsers : Ban(id)
    \/ \E hwid \in Devices : Unban(hwid)
    \/ \E id \in BindUsers : ClearWarnings(id)
    \/ \E id \in BindUsers, action \in {"reset", "admin_reset"} :
          ResetHwid(id, action) /\ BanBounded'
    \/ AdvanceTime(2 * Hour) /\ now' <= StartTime + BindHorizon

SpecBind == Init /\ [][BindNext]_vars

\* C12: in every reachable state, a user with two or more warnings and a
\* bound device has that device in the BanSet.
C12_WarnedDeviceBanned ==
    \A id \in Users :
        (users[id].warnings >= 2 /\ users[id].hwid # Null)
        => InBanSet(banned_hwids, users[id].hwid)

\* C19: a Valid answer to a user with no bound device binds the presented
\* device and appends a history entry for it; a bound device changes only by
\* a reset (the user's or the admin's), which clears it; and whenever the
\* bound device goes from none to a value, one history entry naming that
\* device is appended in the same step.
C19_BindingOneWay ==
    [][\A id \in BindUsers :
          /\ \A key \in BindKeys, hwid \in Devices :
                (/\ resp'.op \in {"validate", "joiner-validate"} /\ resp'.user = id
                 /\ users[id].hwid = Null
                 /\ (Validate(key, hwid) \/ JoinerValidate(key, hwid))
                 /\ resp'.status = "Valid")
                => /\ users'[id].hwid = hwid
                   /\ Len(users'[id].hwid_history) = Len(users[id].hwid_history) + 1
          /\ (users[id].hwid # Null /\ users'[id].hwid # users[id].hwid)
                => (resp'.op \in {"reset-hwid", "admin-reset-hwid"} /\ users'[id].hwid = Null)
          /\ (users[id].hwid = Null /\ users'[id].hwid # Null)
                => /\ Len(users'[id].hwid_history) = Len(users[id].hwid_history) + 1
                   /\ users'[id].hwid_history[Len(users'[id].hwid_history)].hwid
                          = users'[id].hwid]_vars


\* ============================================================================
\* Specification of rebinding: the three binding endpoints and the two resets
\* ============================================================================
MaxResetHistory == 3
ResetHorizon == 120

ResetUsers == {1}
ResetKeys == {<<"ULTRA", 1>>, <<"ULTRA", 0>>}

ResetBounded == \A id \in Users : Len(users[id].hwid_history) <= MaxResetHistory

ResetNext ==
    \/ \E id \in ResetUsers : AddTime(id, 20, 1) /\ ExpiryWithin(StartTime + ResetHorizon)'
    \/ \E key \in ResetKeys, hwid \in BanDevices : Validate(key, hwid) /\ ResetBounded'
    \/ \E key \in ResetKeys, hwid \in BanDevices : JoinerValidate(key, hwid) /\ ResetBounded'
    \/ \E key \in ResetKeys, hwid \in BanDevices : ScannerScript(key, hwid)
    \/ \E id \in ResetUsers, action \in {"reset", "admin_reset"} :
          ResetHwid(id, action) /\ ResetBounded'
    \/ AdvanceTime(2 * Hour) /\ now' <= StartTime + ResetHorizon

SpecReset == Init /\ [][ResetNext]_vars

IsPrefix(a, b) == Len(a) <= Len(b) /\ SubSeq(b, 1, Len(a)) = a

\* C21: a reset (the user's or the admin's) of a user with a bound device
\* appends that device to the user's history and clears the binding; a Valid
\* validation of a user with no bound device binds the device it presents,
\* whichever it is; and every step leaves each user's earlier history in
\* place, only ever adding to its end.
C21_ResetAppendsAndFreesBinding ==
    [][\A id \in ResetUsers :
          /\ \A action \in {"reset", "admin_reset"} :
                (/\ resp'.op \in {"reset-hwid", "admin-reset-hwid"} /\ resp'.user = id
                 /\ users[id].hwid # Null
                 /\ ResetHwid(id, action))
                => /\ users'[id].hwid = Null
                   /\ Len(users'[id].hwid_history) = Len(users[id].hwid_history) + 1
                   /\ users'[id].hwid_history[Len(users'[id].hwid_history)].hwid
                          = users[id].hwid
          /\ \A hwid \in Devices :
                (/\ resp'.op \in {"validate", "joiner-validate"} /\ resp'.user = id
                 /\ users[id].hwid = Null
                 /\ (Validate(users[id].license_key, hwid)
                        \/ JoinerValidate(users[id].license_key, hwid))
                 /\ resp'.status = "Valid")
                => users'[id].hwid = hwid
          /\ IsPrefix(users[id].hwid_history, users'[id].hwid_history)]_vars

\* a user bound to one device has reset the binding and a Valid validation
\* has bound the other device: the history holds the three entries in order
C21_Witness ==
    /\ resp.op = "validate" /\ resp.status = "Valid"
    /\ users[resp.user].hwid = "d2"
    /\ Len(users[resp.user].hwid_history) = 3
    /\ users[resp.user].hwid_history[1].hwid = "d1"
    /\ users[resp.user].hwid_history[1].action = "set"
    /\ users[resp.user].hwid_history[2].hwid = "d1"
    /\ users[resp.user].hwid_history[2].action = "reset"
    /\ users[resp.user].hwid_history[3].hwid = "d2"
    /\ users[resp.user].hwid_history[3].action = "set"


\* ============================================================================
\* Specification of validation: the tool's and the joiner's validation of a
\* key, with grants, bans, cleared warnings and pauses
\* ============================================================================
ValidateHorizon == 120
ValidateExpiryHorizon == 240

ValidateNext ==
    \/ \E id \in BindUsers : AddTime(id, 20, 1) /\ ExpiryWithin(StartTime + ValidateExpiryHorizon)'
    \/ \E key \in BindKeys, hwid \in BanDevices : Validate(key, hwid) /\ BanBounded'
    \/ \E key \in BindKeys, hwid \in BanDevices : JoinerValidate(key, hwid) /\ BanBounded'
    \/ \E id \in BindUsers : Warn(id) /\ BanBounded'
    \/ \E id \in BindUsers : Ban(id)
    \/ \E id \in BindUsers : ClearWarnings(id)
    \/ \E id \in BindUsers : PauseToggle(id) /\ ExpiryWithin(StartTime + ValidateExpiryHorizon)'
    \/ PauseAll
    \/ AdvanceTime(2 * Hour) /\ now' <= StartTime + ValidateHorizon

SpecValidate == Init /\ [][ValidateNext]_vars

\* the decision list of the contract, first match wins, with "active" read
\* as the stored expiry being after now
ReferenceDecision(key, hwid) ==
    LET id == findUserByKey(key)
    IN  CASE InBanSet(banned_hwids, hwid) -> "Banned"
          [] OTHER ->
        CASE id = 0 -> "InvalidKey"
          [] OTHER ->
        CASE users[id].warnings >= 2 -> "Banned"
          [] OTHER ->
        CASE InBanSet(banned_hwids, users[id].hwid) -> "Banned"
          [] OTHER ->
        CASE ~RLt(RInt(now), users[id].subscription_expires) -> "Expired"
          [] OTHER ->
        CASE users[id].hwid # Null /\ users[id].hwid # hwid -> "HWIDMismatch"
          [] OTHER -> "Valid"

\* C17: every validation that carries a key, by the tool's endpoint or the
\* joiner's, answers what the decision list gives for the same key, device
\* and state: presented device banned, unknown key, two warnings, bound
\* device banned, not active, device mismatch, otherwise valid.
C17_ValidateFollowsDecisionList ==
    [][\A key \in BindKeys \ {NoKey}, hwid \in BanDevices :
          (/\ resp'.op \in {"validate", "joiner-validate"}
           /\ (Validate(key, hwid) \/ JoinerValidate(key, hwid)))
          => resp'.status = ReferenceDecision(key, hwid)]_vars

\* the effective-read rule: paused ? frozen_remaining > 0 : expires > now
EffectiveActive(user) ==
    IF user.paused
    THEN user.paused_time_remaining # NoNum /\ RLt(RInt(0), user.paused_time_remaining)
    ELSE RLt(RInt(now), user.subscription_expires)

\* C18: when the key is known and no ban check applies, a validation answers
\* Expired exactly when the user is not active under the effective-read rule;
\* a paused user with frozen time left is not answered Expired.
C18_ExpiredIffNotEffectivelyActive ==
    [][\A id \in BindUsers, hwid \in BanDevices :
          (/\ resp'.op \in {"validate", "joiner-validate"} /\ resp'.user = id
           /\ (Validate(users[id].license_key, hwid)
                  \/ JoinerValidate(users[id].license_key, hwid))
           /\ ~InBanSet(banned_hwids, hwid)
           /\ users[id].warnings < 2
           /\ ~InBanSet(banned_hwids, users[id].hwid))
          => ((resp'.status = "Expired") <=> ~EffectiveActive(users[id]))]_vars


\* ============================================================================
\* Specification of the expiry sweep: short grants, removals, clock and timer
\* ============================================================================
SweepHorizon == 14

SweepUsers == {1, 2}
SweepGrants == {1}
SweepSteps == {1, SweepInterval}

SweepNext ==
    \/ \E id \in SweepUsers, hours10 \in SweepGrants : AddTime(id, hours10, 1) /\ ExpiryWithin(StartTime + SweepHorizon)'
    \/ \E id \in SweepUsers, hours10 \in {0} \cup SweepGrants : RemoveHours(id, hours10)
    \/ \E id \in SweepUsers : RemoveSubscription(id)
    \/ \E d \in SweepSteps : AdvanceTime(d) /\ now' <= StartTime + SweepHorizon
    \/ SweepTick
    \/ \E i \in 1..MaxInFlight : SweepStep(i)

SpecSweep == Init /\ [][SweepNext]_vars

\* the users a tick has just put in a new in-flight sweep
Selected == IF Len(sweeps') > Len(sweeps)
            THEN {sweeps'[Len(sweeps')][k] : k \in 1..Len(sweeps'[Len(sweeps')])}
            ELSE {}

C22_TickSelectsWindowAndDemotes ==
    [][/\ SweepTick
          => /\ users' = users
             /\ \A u \in Users :
                   u \in Selected
                   <=> /\ users[u].subscription_tier > 0
                       /\ RLt(RInt(now - SweepInterval), users[u].subscription_expires)
                       /\ RLt(users[u].subscription_expires, RInt(now))
       /\ \A i \in 1..Len(sweeps) :
             SweepStep(i)
             => /\ users'[Head(sweeps[i])]
                      = [users[Head(sweeps[i])] EXCEPT !.subscription_tier = 0]
                /\ \A o \in Users \ {Head(sweeps[i])} : users'[o] = users[o]]_vars

\* a sweep has finished: the user that lapsed within the last interval has
\* tier 0 and the lapsed expiry, while a user that lapsed longer ago (the
\* timer fired late) was not selected and keeps the tier
C22_Witness ==
    /\ sweeps = <<>> /\ now = lastTick
    /\ \E u, v \in Users :
          /\ users[u].subscription_tier = 0
          /\ RLt(RInt(lastTick - SweepInterval), users[u].subscription_expires)
          /\ RLt(users[u].subscription_expires, RInt(lastTick))
          /\ users[v].subscription_tier > 0
          /\ RLt(RInt(0), users[v].subscription_expires)
          /\ RLe(users[v].subscription_expires, RInt(lastTick - SweepInterval))

\* C23: no inbound operation runs between the moment a tick has selected its
\* lapsed users and the moment it has written tier 0 for the last of them:
\* while a sweep is in flight no admin grant is handled.
C23_NoOperationDuringSweep ==
    [][\A id \in SweepUsers, hours10 \in SweepGrants :
          ~(sweeps # <<>> /\ resp'.op = "add-time" /\ AddTime(id, hours10, 1))]_vars


\* C36: whenever the timer callback writes tier 0 for a user, the stored expiry
\* of that user is not after now at that moment, also when a Subscribe or an
\* AddTime for the user was handled while the role removal was awaited.
C36_DemotedOnlyWhenLapsed ==
    [][\A i \in 1..Len(sweeps) :
          SweepStep(i) => RLe(users[Head(sweeps[i])].subscription_expires, RInt(now))]_vars

\* ============================================================================
\* Specification of entitlement over time: short grants, pauses, removal of
\* the subscription, validation, the clock and the sweep
\* ============================================================================
FreezeHorizon == 10

FreezeUsers == {1}
FreezeKeys == {<<"ULTRA", 1>>}
FreezeDevices == {"d1"}
FreezeSteps == {SweepInterval}

FreezeNext ==
    \/ \E id \in FreezeUsers, hours10 \in SweepGrants :
          AddTime(id, hours10, 1) /\ ExpiryWithin(StartTime + 2 * FreezeHorizon)'
    \/ \E id \in FreezeUsers : PauseToggle(id) /\ ExpiryWithin(StartTime + 2 * FreezeHorizon)'
    \/ \E id \in FreezeUsers : Unpause(id) /\ ExpiryWithin(StartTime + 2 * FreezeHorizon)'
    \/ \E id \in FreezeUsers : RemoveSubscription(id)
    \/ \E key \in FreezeKeys, hwid \in FreezeDevices : Validate(key, hwid)
    \/ \E d \in FreezeSteps : AdvanceTime(d) /\ now' <= StartTime + FreezeHorizon
    \/ SweepTick
    \/ \E i \in 1..MaxInFlight : SweepStep(i)

SpecFreeze == Init /\ [][FreezeNext]_vars

\* C25: no validation answers Valid for a user whose tier is 0, whatever the
\* stored expiry and whatever removal, demotion, unpause or grant came before.
C25_TierZeroNeverValid ==
    (resp.op = "validate" /\ resp.status = "Valid") => resp.body.tier > 0

\* C29: while a user is paused, neither the passing of time nor any tick of
\* the sweep changes the user's tier, and an Unpause leaves exactly the
\* frozen duration between now and the new expiry.
C29_PausedTimeFrozen ==
    [][\A id \in FreezeUsers :
          /\ (/\ users[id].paused
              /\ \/ \E d \in FreezeSteps : AdvanceTime(d)
                 \/ SweepTick
                 \/ \E i \in 1..Len(sweeps) : SweepStep(i))
                => users'[id].subscription_tier = users[id].subscription_tier
          /\ (/\ users[id].paused /\ users[id].paused_time_remaining # NoNum
              /\ resp'.user = id /\ Unpauses(id))
                => RSub(users'[id].subscription_expires, RInt(now))
                      = users[id].paused_time_remaining]_vars


\* ============================================================================
\* Specification of refused purchases: every guard of POST /api/subscribe
\* ============================================================================
RejectHorizon == 60
RejectExpiryHorizon == 180
MaxRejectWarnings == 2

RejectUsers == {1, 2}
RejectTargets == {2}
RejectTiers == {1, 5, 6}
RejectHours == {10, 20}
RejectKeys == {<<"ULTRA", 2>>}
RejectDevices == {"d1"}
RejectOverrides ==
    {[t \in Tiers |-> IF t = 1 THEN [price |-> 0, slots |-> 1, hasEnabled |-> FALSE, enabled |-> TRUE]
                      ELSE NoOverride],
     [t \in Tiers |-> IF t = 1 THEN [price |-> 0, slots |-> 0, hasEnabled |-> TRUE, enabled |-> FALSE]
                      ELSE NoOverride]}

RejectBounded ==
    /\ Len(warnings_log) <= MaxRejectWarnings
    /\ \A id \in Users : Len(users[id].hwid_history) <= 1

RejectNext ==
    \/ \E id \in RejectUsers, tier \in RejectTiers, hours10 \in RejectHours :
          Subscribe(id, tier, hours10) /\ ExpiryWithin(StartTime + RejectExpiryHorizon)'
    \/ \E key \in RejectKeys, hwid \in RejectDevices : Validate(key, hwid) /\ RejectBounded'
    \/ \E id \in RejectTargets : Warn(id) /\ RejectBounded'
    \/ \E id \in RejectTargets : Ban(id)
    \/ \E input \in RejectOverrides : SetPlans(input)
    \/ PauseAll
    \/ ToggleSales
    \/ AdvanceTime(Hour) /\ now' <= StartTime + RejectHorizon

SpecReject == InitSlots /\ [][RejectNext]_vars

SubscribeErrors ==
    {"BannedHWID", "BannedWarnings", "SalesClosed", "GlobalPaused", "InvalidHours",
     "InvalidTier", "PlanDisabled", "PlanAdminOnly", "SlotsFull", "InsufficientBalance"}

\* C26: a Subscribe that is refused answers with one of the ten error results
\* and writes nothing (no user record, no configuration, no ban list
\* changes); a request that passes every other guard is answered
\* InsufficientBalance exactly when the balance is below hours * price, and
\* that answer carries the amount needed and the balance available.
C26_RejectedSubscribeWritesNothing ==
    [][\A id \in RejectUsers, tier \in RejectTiers, hours10 \in RejectHours :
          (resp'.op = "subscribe" /\ resp'.user = id /\ Subscribe(id, tier, hours10))
             => /\ resp'.status # "ok"
                   => /\ resp'.status \in SubscribeErrors
                      /\ UNCHANGED dbVars
                /\ resp'.status \in {"ok", "InsufficientBalance"}
                   => /\ resp'.status = "InsufficientBalance"
                         <=> users[id].balance < hours10 * getPlans[tier].price
                      /\ resp'.status = "InsufficientBalance"
                         => /\ resp'.body.needed = hours10 * getPlans[tier].price
                            /\ resp'.body.have = users[id].balance]_vars

\* a holder of a running plan whose balance no longer covers the request is
\* refused with the two amounts, and keeps plan and balance
C26_Witness ==
    /\ resp.op = "subscribe"
    /\ resp.status = "InsufficientBalance"
    /\ resp.body.needed > resp.body.have
    /\ users[resp.user].balance = resp.body.have
    /\ users[resp.user].subscription_tier > 0
    /\ RLt(RInt(now), users[resp.user].subscription_expires)


\* C38: a Subscribe that succeeds takes exactly hours * price of the plan off
\* the balance of the subscriber, leaves the balance of every other user as
\* it was, and leaves the subscriber with a balance that is not negative.
C38_SubscribeDeductsExactCost ==
    [][\A id \in RejectUsers, tier \in RejectTiers, hours10 \in RejectHours :
          (resp'.op = "subscribe" /\ resp'.user = id /\ resp'.status = "ok"
           /\ Subscribe(id, tier, hours10))
             => /\ users'[id].balance = users[id].balance - hours10 * getPlans[tier].price
                /\ users'[id].balance >= 0
                /\ resp'.body.new_balance = users'[id].balance
                /\ \A o \in Users \ {id} : users'[o].balance = users[o].balance]_vars

\* a purchase of two hours has just been paid from the funds credited at the
\* start, and another user still holds the full funds
C38_Witness ==
    /\ resp.op = "subscribe" /\ resp.status = "ok"
    /\ resp.body.hours_added = HoursOf(20)
    /\ users[resp.user].balance = SlotFunds - 20 * getPlans[resp.body.tier].price
    /\ users[resp.user].balance < SlotFunds
    /\ resp.body.new_balance = users[resp.user].balance
    /\ users[resp.user].subscription_tier = resp.body.tier
    /\ \E o \in Users \ {resp.user} : users[o].balance = SlotFunds

\* ============================================================================
\* The reads of entitlement
\* ============================================================================
\* JavaScript truthiness of a stored number: null and 0 are falsy
Truthy(n) == n # NoNum /\ n # RInt(0)

\* GET /api/user and GET /api/admin/users: the frozen time decides for a
\* paused user that has some, the stored expiry otherwise
currentUserIsActive(user) ==
    IF user.paused /\ Truthy(user.paused_time_remaining)
    THEN RLt(RInt(0), user.paused_time_remaining)
    ELSE ExpiresAfter(user, now)

adminUsersIsActive(user) ==
    IF user.paused /\ Truthy(user.paused_time_remaining)
    THEN RLt(RInt(0), user.paused_time_remaining)
    ELSE ExpiresAfter(user, now)

\* GET /api/validate, /api/joiner/validate, /api/joiner/servers,
\* /api/joiner/live-logs, /api/joiner/heartbeat and /api/scanner/script
validateIsActive(user) == ExpiresAfter(user, now)

\* GET /api/active-users: the filter of the public list
activeUsersListed(user) ==
    \/ user.paused /\ user.paused_time_remaining # NoNum
                   /\ RLt(RInt(0), user.paused_time_remaining)
    \/ user.subscription_tier > 0 /\ ExpiresAfter(user, now)

\* GET /api/slots-status: the users counted on the tiers
slotsStatusCounted(user) == user.subscription_tier > 0 /\ ExpiresAfter(user, now)

\* C27: in every reachable state every read of entitlement gives, for every
\* user, the same isActive, namely paused ? frozen_remaining > 0 : expires >
\* now.
C27_ReadsAgree ==
    \A id \in FreezeUsers :
        LET user == users[id]
        IN  /\ currentUserIsActive(user) = EffectiveActive(user)
            /\ adminUsersIsActive(user) = EffectiveActive(user)
            /\ validateIsActive(user) = EffectiveActive(user)
            /\ activeUsersListed(user) = EffectiveActive(user)
            /\ slotsStatusCounted(user) = EffectiveActive(user)


\* ============================================================================
\* Specification of account creation: the login callback on a database that
\* starts without users
\* ============================================================================
KeySpace == 2
CreateHorizon == 60
CreateFunds == 2000

Profiles == {1, 2, 3}

\* generateLicenseKey: 'ULTRA-' and sixteen characters drawn with
\* Math.random(); every string of the key space is a possible outcome
generateLicenseKey == {<<"ULTRA", k>> : k \in 1..KeySpace}

\* the verify callback of the Discord strategy: a profile seen for the first
\* time gets a record (the model names the record by its profile), a known
\* one has username, avatar and last_active refreshed
DiscordVerify(profile, licenseKey) ==
    /\ IF profile \in DOMAIN users
       THEN /\ UNCHANGED users
            /\ Reply("auth-discord", profile, "known",
                     [license_key |-> users[profile].license_key])
       ELSE /\ users' = [u \in DOMAIN users \cup {profile} |->
                            IF u = profile
                            THEN [NewUser(profile) EXCEPT !.license_key = licenseKey]
                            ELSE users[u]]
            /\ Reply("auth-discord", profile, "created", [license_key |-> licenseKey])
    /\ UNCHANGED <<banVars, cfgVars, now, sweepVars>>

InitCreate ==
    /\ users = [id \in {} |-> NewUser(id)]
    /\ FreshServer

CreateNext ==
    \/ \E profile \in Profiles, licenseKey \in generateLicenseKey :
          DiscordVerify(profile, licenseKey)
    \/ \E id \in DOMAIN users :
          AddBalance(id, CreateFunds) /\ users'[id].balance <= CreateFunds
    \/ \E id \in DOMAIN users :
          AddTime(id, 20, 1)
             /\ RLe(users'[id].subscription_expires, RInt(StartTime + 2 * Hour + CreateHorizon))
    \/ \E id \in DOMAIN users : RemoveSubscription(id)
    \/ AdvanceTime(Hour) /\ now' <= StartTime + CreateHorizon

SpecCreate == InitCreate /\ [][CreateNext]_vars

\* C28: the login callback creates a user with tier 0, zero balance, no bound
\* device and a license key that no existing user has; after every step no
\* two users share a license key; and no step removes a user.
C28_FreshUniqueKeyNoRemoval ==
    [][/\ \A profile \in Profiles :
             (/\ resp'.op = "auth-discord" /\ resp'.user = profile /\ resp'.status = "created"
              /\ \E licenseKey \in generateLicenseKey : DiscordVerify(profile, licenseKey))
                => /\ profile \notin DOMAIN users
                   /\ users'[profile].subscription_tier = 0
                   /\ users'[profile].balance = 0
                   /\ users'[profile].hwid = Null
                   /\ \A u \in DOMAIN users :
                         users[u].license_key # users'[profile].license_key
       /\ \A u, v \in DOMAIN users' :
             u # v => users'[u].license_key # users'[v].license_key
       /\ DOMAIN users \subseteq DOMAIN users']_vars


\* ============================================================================
\* Specification of the public slot board: GET /api/slots-status next to
\* purchases, admin grants and plan overrides
\* ============================================================================
StatusHorizon == 120
StatusExpiryHorizon == 300

StatusTiers == {1, 2}
StatusHours == {20}
StatusGrantees == {3}

\* mutant: the board counts every holder of the tier, expired or not
tierUsers_AnyExpiry(tier) ==
    {u \in Users : users[u].subscription_tier > 0 /\ users[u].subscription_tier = tier}

\* activeUsers.filter(u => u.subscription_tier == tier)
tierUsers(tier) ==
    {u \in Users : /\ users[u].subscription_tier > 0
                   /\ ExpiresAfter(users[u], now)
                   /\ users[u].subscription_tier = tier}

\* tierUsers sorted by expiry, first element: expiry - now, or null
nextSlotMs(tier) ==
    IF tierUsers(tier) = {} THEN NoNum
    ELSE LET first == CHOOSE u \in tierUsers(tier) :
                         \A v \in tierUsers(tier) :
                             RLe(users[u].subscription_expires, users[v].subscription_expires)
         IN  RSub(users[first].subscription_expires, RInt(now))

SlotsStatus ==
    /\ Reply("slots-status", 0, "ok",
             [t \in Tiers |-> [activeUsers |-> Cardinality(tierUsers(t)),
                               maxSlots |-> maxSlotsOf(getPlans[t]),
                               nextSlotMs |-> nextSlotMs(t)]])
    /\ UNCHANGED <<dbVars, now, sweepVars>>

StatusNext ==
    \/ \E id \in Users, tier \in StatusTiers, hours10 \in StatusHours :
          Subscribe(id, tier, hours10) /\ ExpiryWithin(StartTime + StatusExpiryHorizon)'
    \/ \E id \in StatusGrantees : AddTime(id, 20, 1) /\ ExpiryWithin(StartTime + StatusExpiryHorizon)'
    \/ \E input \in SlotOverrides : SetPlans(input)
    \/ SlotsStatus
    \/ AdvanceTime(Hour) /\ now' <= StartTime + StatusHorizon

SpecStatus == InitSlots /\ [][StatusNext]_vars

\* the users that hold tier with a stored expiry after now
HoldersNow(tier) ==
    {u \in Users : users[u].subscription_tier = tier /\ RLt(RInt(now), users[u].subscription_expires)}

\* C31: the slot board reports for every tier the number of users on that
\* tier whose stored expiry is after now, and as next slot the least
\* expiry - now among them (null when there is none); the number equals the
\* count the admission check of Subscribe uses for a requester not on the tier.
C31_SlotsStatusCountsAndEta ==
    [][(resp'.op = "slots-status" /\ SlotsStatus)
          => \A t \in Tiers :
                /\ resp'.body[t].activeUsers = Cardinality(HoldersNow(t))
                /\ IF HoldersNow(t) = {}
                   THEN resp'.body[t].nextSlotMs = NoNum
                   ELSE /\ \E u \in HoldersNow(t) :
                              resp'.body[t].nextSlotMs
                                 = RSub(users[u].subscription_expires, RInt(now))
                        /\ \A u \in HoldersNow(t) :
                              RLe(resp'.body[t].nextSlotMs,
                                  RSub(users[u].subscription_expires, RInt(now)))
                /\ \A id \in Users :
                      users[id].subscription_tier # t
                         => resp'.body[t].activeUsers = activeUsersOnTier(t, id)]_vars

\* the board has just been read with two holders of one tier that expire at
\* different instants, and shows the earlier one
C31_Witness ==
    /\ resp.op = "slots-status"
    /\ \E t \in Tiers, u, v \in Users :
          /\ u \in HoldersNow(t) /\ v \in HoldersNow(t)
          /\ RLt(users[u].subscription_expires, users[v].subscription_expires)
          /\ resp.body[t].activeUsers = Cardinality(HoldersNow(t))
          /\ resp.body[t].nextSlotMs = RSub(users[u].subscription_expires, RInt(now))
          /\ \E w \in Users : users[w].subscription_tier > 0
                                 /\ ~RLt(RInt(now), users[w].subscription_expires)


\* ============================================================================
\* Specification of the ban list: every writer of db.banned_hwids next to the
\* operations that must leave it alone
\* ============================================================================
BanSetHorizon == 120
MaxBanSetLog == 2
MaxBanSetHistory == 2

BanSetUsers == {1}
BanSetKeys == {<<"ULTRA", 1>>, <<"ULTRA", 0>>}
BanSetTiers == {1}
BanSetHours == {20}

BanSetBounded ==
    /\ Len(warnings_log) <= MaxBanSetLog
    /\ \A id \in Users : Len(users[id].hwid_history) <= MaxBanSetHistory

BanSetNext ==
    \/ \E id \in BanSetUsers, tier \in BanSetTiers, hours10 \in BanSetHours :
          Subscribe(id, tier, hours10) /\ ExpiryWithin(StartTime + 2 * BanSetHorizon)'
    \/ \E key \in BanSetKeys, hwid \in Devices : Validate(key, hwid) /\ BanSetBounded'
    \/ \E id \in BanSetUsers : Warn(id) /\ BanSetBounded'
    \/ \E id \in BanSetUsers : Ban(id)
    \/ \E hwid \in Devices : Unban(hwid)
    \/ \E id \in BanSetUsers : UnbanUser(id)
    \/ \E id \in BanSetUsers : ClearWarnings(id)
    \/ \E id \in BanSetUsers, action \in {"reset", "admin_reset"} :
          ResetHwid(id, action) /\ BanSetBounded'
    \/ AdvanceTime(Hour) /\ now' <= StartTime + BanSetHorizon

SpecBanSet == InitSlots /\ [][BanSetNext]_vars

\* C32: a step that takes a device off the ban list is an admin unban, by
\* device or by user; the two reset routes, clear-warnings, Subscribe and
\* Validate leave the list as it is.
C32_BanSetShrinksOnlyByUnban ==
    [][/\ (\E d \in Devices : InBanSet(banned_hwids, d) /\ ~InBanSet(banned_hwids', d))
             => \/ resp'.op = "admin-unban" /\ \E hwid \in Devices : Unban(hwid)
                \/ resp'.op = "admin-unban-user" /\ \E id \in BanSetUsers : UnbanUser(id)
       /\ (\/ resp'.op \in {"reset-hwid", "admin-reset-hwid"}
              /\ \E id \in BanSetUsers, action \in {"reset", "admin_reset"} : ResetHwid(id, action)
           \/ resp'.op = "admin-clear-warnings" /\ \E id \in BanSetUsers : ClearWarnings(id)
           \/ resp'.op = "subscribe"
              /\ \E id \in BanSetUsers, tier \in BanSetTiers, hours10 \in BanSetHours :
                    Subscribe(id, tier, hours10)
           \/ resp'.op = "validate"
              /\ \E key \in BanSetKeys, hwid \in Devices : Validate(key, hwid))
             => banned_hwids' = banned_hwids]_vars

\* the warnings of a user whose bound device is banned have just been cleared,
\* and the device is still on the list
C32_Witness ==
    /\ resp.op = "admin-clear-warnings"
    /\ users[resp.user].warnings = 0
    /\ users[resp.user].hwid # Null
    /\ InBanSet(banned_hwids, users[resp.user].hwid)


\* the last handler that ran was the self-service reset of id, and the device
\* it unbound is on the ban list
ResetOfBannedDevice(id) ==
    /\ resp.op = "reset-hwid" /\ resp.user = id
    /\ users[id].hwid_history # <<>>
    /\ users[id].hwid_history[Len(users[id].hwid_history)].action = "reset"
    /\ InBanSet(banned_hwids, users[id].hwid_history[Len(users[id].hwid_history)].hwid)

\* C37: a user whose bound device is on the ban list does not get rid of the
\* ban by own operations: right after the user's own reset of the binding, a
\* Validate for the user's key is not answered Valid, whatever device is
\* presented, and a Subscribe by the user does not succeed.
C37_BanNotShedByOwnReset ==
    [][\A id \in BanSetUsers :
          /\ \A key \in BanSetKeys, hwid \in Devices :
                (ResetOfBannedDevice(id) /\ resp'.op = "validate" /\ resp'.user = id
                 /\ Validate(key, hwid))
                   => resp'.status # "Valid"
          /\ \A tier \in BanSetTiers, hours10 \in BanSetHours :
                (ResetOfBannedDevice(id) /\ resp'.op = "subscribe" /\ resp'.user = id
                 /\ Subscribe(id, tier, hours10))
                   => resp'.status # "ok"]_vars

\* ============================================================================
\* Specification of the expiry timer under fair scheduling: the timer fires
\* every SweepInterval on the dot, the clock never skips a firing, and an
\* awaited role removal returns
\* ============================================================================
FairHorizon == 22
FairUsers == {1, 2}

\* the clock moves by one unit, never past the instant the timer is due
ClockTick ==
    /\ now + 1 <= lastTick + SweepInterval
    /\ now + 1 <= StartTime + FairHorizon
    /\ AdvanceTime(1)

FairNext ==
    \/ \E id \in FairUsers, hours10 \in SweepGrants :
          AddTime(id, hours10, 1)
             /\ ExpiryWithin(StartTime + FairHorizon - 2 * SweepInterval)'
    \/ ClockTick
    \/ SweepTick
    \/ \E i \in 1..MaxInFlight : SweepStep(i)

SpecFair ==
    /\ Init
    /\ [][FairNext]_vars
    /\ WF_vars(ClockTick)
    /\ WF_vars(SweepTick)
    /\ WF_vars(\E i \in 1..MaxInFlight : SweepStep(i))

\* the stored expiry of a non-paused holder of a tier has passed
Lapsed(id) ==
    /\ users[id].subscription_tier > 0
    /\ ~users[id].paused
    /\ RLe(users[id].subscription_expires, RInt(now))

\* the user is at tier 0, or holds time again through a later grant
DemotedOrRenewed(id) ==
    \/ users[id].subscription_tier = 0
    \/ RLt(RInt(now), users[id].subscription_expires)

\* C33: with the timer firing every interval, a non-paused user with tier > 0
\* whose stored expiry has passed is eventually at tier 0 (or holds time again
\* through a later grant), whatever the instant of the expiry.
C33_LapsedEventuallyDemoted ==
    \A id \in FairUsers :
        Lapsed(id) ~> DemotedOrRenewed(id)

=============================================================================
